---- MODULE Spec2Model ----
(***************************************************************************)
(* Oil & gas financial chatbot: the SQLite record store                    *)
(* (src/src/database/database.py), the generative responder               *)
(* (src/src/llm/openai_interface.py), the context assembler                *)
(* (src/src/data/financial_data.py) and the query handler (src/main.py).   *)
(*                                                                         *)
(* Conventions.  A Python value that may be None / an SQL value that may   *)
(* be NULL is a sequence of length at most one: None is << >>, the value v *)
(* is <<v>>.  A dict is a function whose DOMAIN is its key set.  Text is a *)
(* sequence of one-character strings (questions, keywords) or of tokens    *)
(* (answers); a code point outside ASCII is written "U+xxxx".  A date is   *)
(* a day number: ISO dates of one width order as their day numbers do.     *)
(* A timestamp is [day, tod], tod being the time of day within the day.    *)
(***************************************************************************)
EXTENDS Integers, Sequences, FiniteSets, TLC

None == << >>
Some(v) == <<v>>

\* ---------------------------------------------------------------- bounds
MaxReports == 2     \* rows of financial_reports
MaxDay == 1         \* days the clock runs through
MaxPeriods == 2     \* largest LIMIT asked of get_historical_trends
MaxTextLen == 2     \* tokens of a backend text given to _post_process_response
MaxWords == 2       \* words of a question put together from Words

\* ----------------------------------------------------------- generic helpers
Range(s) == { s[i] : i \in 1..Len(s) }

\* dict.get(k) and dict.get(k, default)
Get(d, k) == IF k \in DOMAIN d THEN d[k] ELSE None
GetD(d, k, dflt) == IF k \in DOMAIN d THEN d[k] ELSE Some(dflt)

\* Python / SQLite (BINARY collation) comparison of two strings, each given
\* as the sequence of the codes of its parts: a > b.
RECURSIVE LexGreater(_, _)
LexGreater(a, b) ==
    IF a = << >> THEN FALSE
    ELSE IF b = << >> THEN TRUE
    ELSE IF Head(a) # Head(b) THEN Head(a) > Head(b)
    ELSE LexGreater(Tail(a), Tail(b))

\* `needle in hay` for sequences
IsSubstr(needle, hay) ==
    \E i \in 0..(Len(hay) - Len(needle)) :
        \A j \in 1..Len(needle) : hay[i + j] = needle[j]

\* any(word in text for word in words)
AnyIn(words, text) == \E i \in 1..Len(words) : IsSubstr(words[i], text)

\* ------------------------------------------------------------------ state
VARIABLES
    companies,          \* table companies: sequence of names, id = index
    financial_reports,  \* table financial_reports: sequence of rows, in insert order
    clock,              \* wall clock [day, tod]
    client,             \* OpenAIInterface.client is set (OPENAI_API_KEY present)
    probe,              \* history: outcome of the start-up probe, "none" before it
    pc,                 \* "init" before FinancialChatbot.__init__ probes, then "ready"
    op,                 \* the operation that ran last
    args,               \* its arguments (and the environment's answers)
    ret,                \* its result
    calls               \* chat.completions.create calls it made

vars == <<companies, financial_reports, clock, client, probe, pc, op, args, ret, calls>>

TRACKED_COMPANIES == <<"Shell", "BP", "ExxonMobil", "Chevron">>

\* _init_default_companies: INSERT OR IGNORE of the four names, name UNIQUE
RECURSIVE InsertOrIgnore(_, _)
InsertOrIgnore(table, names) ==
    IF names = << >> THEN table
    ELSE InsertOrIgnore(
            IF Head(names) \in Range(table) THEN table ELSE Append(table, Head(names)),
            Tail(names))

\* _init_default_companies as it would be with a plain INSERT and no UNIQUE
\* constraint on name
_init_default_companies_plain_insert(table) ==
    table \o <<"Shell", "BP", "ExxonMobil", "Chevron">>

_init_default_companies(table) ==
    InsertOrIgnore(table, <<"Shell", "BP", "ExxonMobil", "Chevron">>)

\* _init_database as it would be with DROP TABLE before CREATE TABLE: the
\* stored reports are lost
_init_database_recreate(db) ==
    [companies |-> _init_default_companies(<< >>),
     financial_reports |-> << >>]

\* _init_database: CREATE TABLE IF NOT EXISTS keeps existing rows
_init_database(db) ==
    [companies |-> _init_default_companies(db.companies),
     financial_reports |-> db.financial_reports]

\* get_company_id: SELECT id FROM companies WHERE name = ?
get_company_id(company_name) ==
    IF \E i \in 1..Len(companies) : companies[i] = company_name
    THEN Some(CHOOSE i \in 1..Len(companies) : companies[i] = company_name)
    ELSE None

\* ----------------------------------------------------------- timestamps
\* CURRENT_TIMESTAMP: 'YYYY-MM-DD HH:MM:SS', one-second resolution.
\* The separator is a space, code 32.
CurrentTimestamp(t) == <<t.day, 32, t.tod>>

\* datetime.isoformat(): 'YYYY-MM-DDTHH:MM:SS[.ffffff]'.  The separator is
\* the letter T, code 84.
IsoFormat(t) == <<t.day, 84, t.tod>>

\* datetime.now() - timedelta(days=days)
MinusDays(t, days) == [day |-> t.day - days, tod |-> t.tod]

\* ------------------------------------------------------------------ inputs
\* report_data dicts handed to store_financial_report
FullFigures(rev, ni, oi, fcf, debt, cash, prod) ==
    [revenue |-> Some(rev), net_income |-> Some(ni), operating_income |-> Some(oi),
     free_cash_flow |-> Some(fcf), total_debt |-> Some(debt),
     cash_and_equivalents |-> Some(cash), production_volume |-> Some(prod),
     production_unit |-> Some("thousand BOE/day")]

\* f extended by the period keys; an absent report_date is a missing key
Dict(f, quarter, date) ==
    [k \in DOMAIN f \cup {"quarter", "year"} \cup (IF date = None THEN {} ELSE {"report_date"}) |->
        IF k = "quarter" THEN Some(quarter)
        ELSE IF k = "year" THEN Some(2024)
        ELSE IF k = "report_date" THEN date
        ELSE f[k]]

ReportA == Dict(FullFigures(80, 16, 20, 12, 10, 20, 3), "Q1", Some(1))
ReportB == Dict(FullFigures(90, 9, 11, 7, 30, 15, 2), "Q1", Some(1))    \* the period of ReportA again
ReportC == Dict([net_income |-> Some(5), total_debt |-> Some(10)], "Q2", Some(2))   \* later, revenue absent
ReportD == Dict(FullFigures(80, 16, 20, 12, 10, 20, 3), "Q2", None)     \* no report_date
ReportE == [report_type |-> None, quarter |-> Some("Q1"), year |-> Some(2024)]   \* report_type: None

ReportInputs == {ReportA, ReportB, ReportC, ReportD, ReportE}

\* (company, report) pairs put: a tracked company with every report, a second
\* tracked company, and a company that is not registered
PutInputs ==
    ({"Shell"} \X ReportInputs) \cup {<<"BP", ReportA>>, <<"Acme", ReportA>>}

QueryCompanies == {"Shell", "BP", "Acme"}

\* ------------------------------------------------------------------- Init
Init ==
    /\ LET db == _init_database([companies |-> << >>, financial_reports |-> << >>])
       IN  /\ companies = db.companies
           /\ financial_reports = db.financial_reports
    /\ clock = [day |-> 0, tod |-> 0]
    /\ client \in BOOLEAN
    /\ probe = "none"
    /\ pc = "init"
    /\ op = "construct"
    /\ args = << >>
    /\ ret = << >>
    /\ calls = 0

\* The same store and session with a text and a category at hand.
InitWith(inputs) ==
    /\ LET db == _init_database([companies |-> << >>, financial_reports |-> << >>])
       IN  /\ companies = db.companies
           /\ financial_reports = db.financial_reports
    /\ clock = [day |-> 0, tod |-> 0]
    /\ client = FALSE
    /\ probe = "none"
    /\ pc = "init"
    /\ op = "input"
    /\ args \in inputs
    /\ ret = << >>
    /\ calls = 0

\* ------------------------------------------------------------------ clock
\* Time passes: the next time of day, or the next day.
Tick ==
    /\ clock.day < MaxDay
    /\ clock' = IF clock.tod = 0 THEN [clock EXCEPT !.tod = 1]
                ELSE [day |-> clock.day + 1, tod |-> 0]
    /\ op' = "tick" /\ args' = << >> /\ ret' = << >> /\ calls' = 0
    /\ UNCHANGED <<companies, financial_reports, client, probe, pc>>

\* ------------------------------------------------- store_financial_report
\* The row INSERT OR REPLACE writes.  No column list names id, and no other
\* column carries a UNIQUE constraint, so no conflict arises and the row is
\* appended under a fresh AUTOINCREMENT id.
NewRowIn(table, company_id, report_data) ==
    [id |-> Len(table) + 1,
     company_id |-> company_id,
     report_type |-> GetD(report_data, "report_type", "quarterly"),
     quarter |-> Get(report_data, "quarter"),
     year |-> Get(report_data, "year"),
     report_date |-> Get(report_data, "report_date"),
     revenue |-> Get(report_data, "revenue"),
     net_income |-> Get(report_data, "net_income"),
     operating_income |-> Get(report_data, "operating_income"),
     free_cash_flow |-> Get(report_data, "free_cash_flow"),
     total_debt |-> Get(report_data, "total_debt"),
     cash_and_equivalents |-> Get(report_data, "cash_and_equivalents"),
     production_volume |-> Get(report_data, "production_volume"),
     production_unit |-> Get(report_data, "production_unit"),
     raw_data |-> report_data,
     created_at |-> CurrentTimestamp(clock),
     updated_at |-> CurrentTimestamp(clock)]

NewRow(company_id, report_data) == NewRowIn(financial_reports, company_id, report_data)

\* store_financial_report as it would be if the INSERT OR REPLACE replaced
\* every earlier row of the company
store_financial_report_replacing_company(cap, company_name, report_data) ==
    LET company_id == get_company_id(company_name) IN
    /\ op' = "store_financial_report"
    /\ args' = [company_name |-> company_name, report_data |-> report_data]
    /\ calls' = 0
    /\ IF company_id = None
       THEN /\ ret' = FALSE
            /\ UNCHANGED financial_reports
       ELSE IF GetD(report_data, "report_type", "quarterly") = None
       THEN /\ ret' = FALSE
            /\ UNCHANGED financial_reports
       ELSE /\ Len(financial_reports) < cap
            /\ financial_reports' =
                   Append(SelectSeq(financial_reports, LAMBDA r : r.company_id # company_id[1]),
                          NewRow(company_id[1], report_data))
            /\ ret' = TRUE
    /\ UNCHANGED <<companies, clock, client, probe, pc>>

\* store_financial_report on a table that holds at most cap rows
store_financial_report_upto(cap, company_name, report_data) ==
    LET company_id == get_company_id(company_name) IN
    /\ op' = "store_financial_report"
    /\ args' = [company_name |-> company_name, report_data |-> report_data]
    /\ calls' = 0
    /\ IF company_id = None
       THEN \* "Company ... not found"
            /\ ret' = FALSE
            /\ UNCHANGED financial_reports
       ELSE IF GetD(report_data, "report_type", "quarterly") = None
       THEN \* report_type TEXT NOT NULL: IntegrityError, caught
            /\ ret' = FALSE
            /\ UNCHANGED financial_reports
       ELSE /\ Len(financial_reports) < cap
            /\ financial_reports' = Append(financial_reports, NewRow(company_id[1], report_data))
            /\ ret' = TRUE
    /\ UNCHANGED <<companies, clock, client, probe, pc>>

\* store_financial_report as it would be if an unknown company were
\* registered on the fly instead of rejected
store_financial_report_autoregister(company_name, report_data) ==
    LET company_id == get_company_id(company_name) IN
    /\ op' = "store_financial_report"
    /\ args' = [company_name |-> company_name, report_data |-> report_data]
    /\ calls' = 0
    /\ IF GetD(report_data, "report_type", "quarterly") = None
       THEN /\ ret' = FALSE
            /\ UNCHANGED <<companies, financial_reports>>
       ELSE /\ Len(financial_reports) < MaxReports
            /\ companies' = IF company_id = None THEN Append(companies, company_name)
                            ELSE companies
            /\ financial_reports' =
                  Append(financial_reports,
                         NewRow(IF company_id = None THEN Len(companies) + 1 ELSE company_id[1],
                                report_data))
            /\ ret' = TRUE
    /\ UNCHANGED <<clock, client, probe, pc>>

store_financial_report(company_name, report_data) ==
    store_financial_report_upto(MaxReports, company_name, report_data)

Put == \E in \in PutInputs : store_financial_report(in[1], in[2])

\* ---------------------------------------------- get_latest_financial_data
RowsOf(company_id) ==
    { financial_reports[i] : i \in { j \in 1..Len(financial_reports) :
                                        financial_reports[j].company_id = company_id } }

\* SQLite's order of two report_date values: NULL sorts below every date
DateGreater(a, b) == a # None /\ (b = None \/ a[1] > b[1])

\* the sort keys swapped: ORDER BY created_at DESC, report_date DESC
LatestBefore_created_first(r, q) ==
    \/ LexGreater(r.created_at, q.created_at)
    \/ /\ r.created_at = q.created_at
       /\ DateGreater(r.report_date, q.report_date)

\* r sorts strictly before q under ORDER BY report_date DESC, created_at DESC
LatestBefore(r, q) ==
    \/ DateGreater(r.report_date, q.report_date)
    \/ /\ r.report_date = q.report_date
       /\ LexGreater(r.created_at, q.created_at)

\* The rows SELECT ... ORDER BY report_date DESC, created_at DESC LIMIT 1 may
\* return: SQL leaves the order of rows that tie on every sort key open.
LatestCandidates(company_id) ==
    { r \in RowsOf(company_id) : \A q \in RowsOf(company_id) : ~LatestBefore(q, r) }

\* The values get_latest_financial_data(company_name) may return.
get_latest_financial_data(company_name) ==
    LET company_id == get_company_id(company_name) IN
    IF company_id = None THEN {None}
    ELSE IF RowsOf(company_id[1]) = {} THEN {None}
    ELSE { Some(r) : r \in LatestCandidates(company_id[1]) }

Latest ==
    \E c \in QueryCompanies :
    \E r \in get_latest_financial_data(c) :
        /\ op' = "get_latest_financial_data"
        /\ args' = [company_name |-> c]
        /\ ret' = r
        /\ calls' = 0
        /\ UNCHANGED <<companies, financial_reports, clock, client, probe, pc>>

\* -------------------------------------------------- get_historical_trends
Metrics == {"revenue", "net_income"}

\* the direction lost: ORDER BY report_date (ascending)
DateOrders_ascending(rows) ==
    LET n == Cardinality(rows) IN
    { s \in [1..n -> rows] :
        /\ \A i, j \in 1..n : i # j => s[i] # s[j]
        /\ \A i, j \in 1..n : i < j => ~DateGreater(s[i].report_date, s[j].report_date) }

\* The orders in which SQLite may deliver the rows of `rows` under
\* ORDER BY report_date DESC: every arrangement in which no row precedes one
\* of a greater report_date.
DateOrders(rows) ==
    LET n == Cardinality(rows) IN
    { s \in [1..n -> rows] :
        /\ \A i, j \in 1..n : i # j => s[i] # s[j]
        /\ \A i, j \in 1..n : i < j => ~DateGreater(s[j].report_date, s[i].report_date) }

\* LIMIT n of a result
Limit(s, n) == SubSeq(s, 1, IF n < Len(s) THEN n ELSE Len(s))

\* dict(zip(['quarter', 'year', metric, 'report_date'], row))
TrendEntry(r, metric) ==
    [quarter |-> r.quarter, year |-> r.year, value |-> r[metric],
     report_date |-> r.report_date, id |-> r.id]

\* The values get_historical_trends(company_name, metric, periods) may return.
get_historical_trends(company_name, metric, periods) ==
    LET company_id == get_company_id(company_name) IN
    IF company_id = None THEN { << >> }
    ELSE LET rows == { r \in RowsOf(company_id[1]) : r[metric] # None } IN
         { [i \in 1..Len(Limit(s, periods)) |-> TrendEntry(s[i], metric)] : s \in DateOrders(rows) }

History ==
    \E c \in QueryCompanies, m \in Metrics, n \in 1..MaxPeriods :
    \E r \in get_historical_trends(c, m, n) :
        /\ op' = "get_historical_trends"
        /\ args' = [company_name |-> c, metric |-> m, periods |-> n]
        /\ ret' = r
        /\ calls' = 0
        /\ UNCHANGED <<companies, financial_reports, clock, client, probe, pc>>

\* --------------------------------------------------------- has_recent_data
\* created_at > ? with ? bound to cutoff_date.isoformat(): a comparison of
\* two TEXT values, byte by byte.
has_recent_data(company_name, days) ==
    LET company_id == get_company_id(company_name)
        cutoff_date == MinusDays(clock, days)
    IN  IF company_id = None THEN FALSE
        ELSE Cardinality({ r \in RowsOf(company_id[1]) :
                             LexGreater(r.created_at, IsoFormat(cutoff_date)) }) > 0

HasRecent ==
    \E c \in QueryCompanies, days \in {0, 1} :
        /\ op' = "has_recent_data"
        /\ args' = [company_name |-> c, days |-> days]
        /\ ret' = has_recent_data(c, days)
        /\ calls' = 0
        /\ UNCHANGED <<companies, financial_reports, clock, client, probe, pc>>

\* ------------------------------------------------------ update_all_reports
\* What the earnings page of one company gives on one refresh, and whether
\* the INSERT that follows goes through: the request raises (timeout, HTTP
\* error), or the page text matches the patterns of the metrics in `found`
\* (values in millions); sqlite3 may raise on the write (locked or full
\* database).
PageError == [kind |-> "raise", found |-> << >>]
PageWith(found) == [kind |-> "text", found |-> found]

FoundCashOnly == [free_cash_flow |-> Some(40)]
FoundIncomeOnly == [net_income |-> Some(10)]
FoundAll == [revenue |-> Some(100), net_income |-> Some(20),
             free_cash_flow |-> Some(15), production |-> Some(4)]

ScrapeOutcomes ==
    { [page |-> PageError, write |-> "ok"],
      [page |-> PageWith(FoundCashOnly), write |-> "ok"],
      [page |-> PageWith(FoundIncomeOnly), write |-> "ok"],
      [page |-> PageWith(FoundAll), write |-> "ok"],
      [page |-> PageWith(FoundAll), write |-> "error"] }

ScrapeAllOk == [page |-> PageWith(FoundAll), write |-> "ok"]

\* One outcome per tracked company: the same for all four, or a good page
\* and a good write for all but one of them.
ScrapeEnvs ==
    { [c \in Range(TRACKED_COMPANIES) |-> o] : o \in ScrapeOutcomes }
    \cup { [c \in Range(TRACKED_COMPANIES) |-> IF c = d THEN o ELSE ScrapeAllOk] :
             d \in Range(TRACKED_COMPANIES), o \in ScrapeOutcomes }

company_sources == {"Shell", "BP", "ExxonMobil", "Chevron"}

\* the quarter and the year of today's date: the days of the clock lie in
\* the first quarter of 2024
QuarterOf(t) == "Q1"
YearOf(t) == 2024

\* _extract_financial_metrics: the matched metrics and the period metadata
_extract_financial_metrics(found, now) ==
    [k \in DOMAIN found \cup {"report_type", "quarter", "year", "report_date", "data_quality"} |->
        IF k = "report_type" THEN Some("quarterly")
        ELSE IF k = "quarter" THEN Some(QuarterOf(now))
        ELSE IF k = "year" THEN Some(YearOf(now))
        ELSE IF k = "report_date" THEN Some(now.day)
        ELSE IF k = "data_quality" THEN Some("scraped_official")
        ELSE found[k]]

\* _scrape_earnings_page: any exception gives {}
_scrape_earnings_page(page, now) ==
    IF page.kind = "raise" THEN << >>
    ELSE _extract_financial_metrics(page.found, now)

_get_basic_market_data ==
    [market_data_available |-> Some(FALSE), note |-> Some("Real-time market data requires API access")]

\* get_company_financial_data: {**base, **earnings_data, **market_data},
\* a later key replacing an earlier one
get_company_financial_data(company, page, now) ==
    IF company \notin company_sources THEN << >>
    ELSE LET base == [company |-> Some(company), symbol |-> Some(company),
                      exchange |-> Some("NYSE"), data_source |-> Some("official_website"),
                      scraped_at |-> Some(IsoFormat(now))]
         IN  _get_basic_market_data @@ _scrape_earnings_page(page, now) @@ base

\* x * 1.2 and x * 0.8 on the floats the scraper yields; the figures used
\* here are multiples of five, on which the product is a whole number
TimesTenths(x, tenths) == (x * tenths) \div 10

\* _format_scraped_data
_format_scraped_data(scraped_data, now) ==
    LET net_income == GetD(scraped_data, "net_income", 0)[1] IN
    [report_type |-> GetD(scraped_data, "report_type", "quarterly"),
     quarter |-> GetD(scraped_data, "quarter", "Q4"),
     year |-> GetD(scraped_data, "year", YearOf(now)),
     report_date |-> GetD(scraped_data, "report_date", now.day),
     revenue |-> GetD(scraped_data, "revenue", 0),
     net_income |-> GetD(scraped_data, "net_income", 0),
     operating_income |-> GetD(scraped_data, "operating_income", TimesTenths(net_income, 12)),
     free_cash_flow |-> GetD(scraped_data, "free_cash_flow", TimesTenths(net_income, 8)),
     total_debt |-> GetD(scraped_data, "total_debt", 0),
     cash_and_equivalents |-> GetD(scraped_data, "cash_and_equivalents", 0),
     production_volume |-> GetD(scraped_data, "production", 0),
     production_unit |-> Some("thousand BOE/day"),
     data_source |-> Some("official_scraping"),
     additional_metrics |->
        Some([data_quality |-> GetD(scraped_data, "data_quality", "scraped"),
              scraping_timestamp |-> GetD(scraped_data, "scraped_at", IsoFormat(now)),
              source_verified |-> Some(TRUE)])]

\* store_financial_report on the table as the loop has left it; `write` is
\* what sqlite3 does with the INSERT
store_in(table, company_name, report_data, write) ==
    LET company_id == get_company_id(company_name) IN
    IF company_id = None THEN [success |-> FALSE, table |-> table]
    ELSE IF GetD(report_data, "report_type", "quarterly") = None \/ write = "error"
    THEN [success |-> FALSE, table |-> table]
    ELSE [success |-> TRUE,
          table |-> Append(table, NewRowIn(table, company_id[1], report_data))]

\* One pass of the loop body of update_all_reports for `company`: log is the
\* sequence of [company, outcome] the logger has written so far.
update_one(company, outcome, acc) ==
    LET real_data == get_company_financial_data(company, outcome.page, clock)
        usable == /\ real_data # << >>
                  /\ \E key \in {"revenue", "net_income", "production"} : key \in DOMAIN real_data
    IN  IF ~usable
        THEN [table |-> acc.table,
              log |-> Append(acc.log, [company |-> company, outcome |-> "skipped"])]
        ELSE LET stored == store_in(acc.table, company,
                                    _format_scraped_data(real_data, clock), outcome.write)
             IN  [table |-> stored.table,
                  log |-> Append(acc.log,
                             [company |-> company,
                              outcome |-> IF stored.success THEN "updated" ELSE "failed"])]

\* update_all_reports as it would be if the loop ended at the first company
\* that is not updated
RECURSIVE update_all_reports_stop_at_failure(_, _, _)
update_all_reports_stop_at_failure(todo, env, acc) ==
    IF todo = << >> THEN acc
    ELSE LET next == update_one(Head(todo), env[Head(todo)], acc) IN
         IF next.log[Len(next.log)].outcome # "updated" THEN next
         ELSE update_all_reports_stop_at_failure(Tail(todo), env, next)

\* update_all_reports: for company in self.companies, each pass in its own
\* try block
RECURSIVE update_all_reports(_, _, _)
update_all_reports(todo, env, acc) ==
    IF todo = << >> THEN acc
    ELSE update_all_reports(Tail(todo), env, update_one(Head(todo), env[Head(todo)], acc))

\* The refresh command, and initialize_data when it finds data missing,
\* under the environments of envs.
RefreshWith(envs) ==
    \E env \in envs :
        LET done == update_all_reports(TRACKED_COMPANIES, env,
                                       [table |-> financial_reports, log |-> << >>])
        IN  /\ Len(financial_reports) <= MaxReports
            /\ financial_reports' = done.table
            /\ op' = "update_all_reports"
            /\ args' = env
            /\ ret' = [kind |-> "done", log |-> done.log]
            /\ calls' = 0
            /\ UNCHANGED <<companies, clock, client, probe, pc>>

Refresh == RefreshWith(ScrapeEnvs)

\* DatabaseManager() is constructed on a store that exists: __init__ runs
\* _init_database.
Reinit ==
    LET db == _init_database([companies |-> companies, financial_reports |-> financial_reports])
    IN  /\ companies' = db.companies
        /\ financial_reports' = db.financial_reports
        /\ op' = "_init_database"
        /\ args' = << >>
        /\ ret' = << >>
        /\ calls' = 0
        /\ UNCHANGED <<clock, client, probe, pc>>

\* ------------------------------------------------------------------- text
UpperCase == <<"A", "B", "C", "D", "E", "F", "G", "H", "I", "J", "K", "L", "M",
               "N", "O", "P", "Q", "R", "S", "T", "U", "V", "W", "X", "Y", "Z">>
LowerCase == <<"a", "b", "c", "d", "e", "f", "g", "h", "i", "j", "k", "l", "m",
               "n", "o", "p", "q", "r", "s", "t", "u", "v", "w", "x", "y", "z">>

\* str.lower()
lower(text) ==
    [i \in 1..Len(text) |->
        IF \E k \in 1..26 : UpperCase[k] = text[i]
        THEN LowerCase[CHOOSE k \in 1..26 : UpperCase[k] = text[i]]
        ELSE text[i]]

\* str.strip(): leading and trailing white space removed
RECURSIVE lstrip(_)
lstrip(text) ==
    IF text # << >> /\ Head(text) = " " THEN lstrip(Tail(text)) ELSE text

RECURSIVE rstrip(_)
rstrip(text) ==
    IF text # << >> /\ text[Len(text)] = " " THEN rstrip(SubSeq(text, 1, Len(text) - 1))
    ELSE text

strip(text) == rstrip(lstrip(text))

\* The markers of _post_process_response, by code point.
CHART == <<"U+1F4CA">>                  \* bar chart
CHART_UP == <<"U+1F4C8">>               \* chart increasing
CHART_DOWN == <<"U+1F4C9">>             \* chart decreasing
MONEY_BAG == <<"U+1F4B0">>
OIL_DRUM == <<"U+1F6E2", "U+FE0F">>     \* with its variation selector
WARNING == <<"U+26A0", "U+FE0F">>
TARGET == <<"U+1F3AF">>

\* The questions asked.
Questions ==
    << <<"C", "o", "m", "p", "a", "r", "e", " ", "S", "h", "e", "l", "l", " ", "a", "n", "d", " ", "B", "P">>,
       <<"W", "h", "i", "c", "h", " ", "i", "s", " ", "b", "e", "s", "t", "?">>,
       <<"H", "o", "w", " ", "d", "i", "d", " ", "t", "h", "e", " ", "m", "a", "j", "o", "r", "s", " ", "p", "e", "r", "f", "o", "r", "m", "?">>,
       <<"A", "n", "y", " ", "d", "e", "c", "l", "i", "n", "e", "?">>,
       <<" ", "C", "o", "m", "p", "a", "n", "i", "e", "s", " ">>,
       <<"q", "u", "i", "t">> >>

\* The questions as process_query passes them on: user_input.strip()
Inputs == { strip(Questions[i]) : i \in 1..Len(Questions) }

\* Words questions are put together from: a keyword of every category of
\* _classify_query, in lower, upper and mixed case, names of tracked
\* companies, keywords of the metric table and a word that is no keyword.
Words ==
    << <<"c", "o", "m", "p", "a", "r", "e">>,
       <<"P", "e", "r", "f", "o", "r", "m", "a", "n", "c", "e">>,
       <<"R", "E", "V", "E", "N", "U", "E">>,
       <<"o", "u", "t", "p", "u", "t">>,
       <<"d", "i", "v", "i", "d", "e", "n", "d">>,
       <<"r", "i", "s", "k">>,
       <<"g", "r", "o", "w", "t", "h">>,
       <<"S", "h", "e", "l", "l">>,
       <<"b", "p">>,
       <<"h", "e", "l", "l", "o">>,
       <<"c", "a", "s", "h", " ", "f", "l", "o", "w">>,
       <<"S", "a", "l", "e", "s">> >>

RECURSIVE Join(_)
Join(ws) ==
    IF ws = << >> THEN << >>
    ELSE IF Len(ws) = 1 THEN Head(ws)
    ELSE Head(ws) \o <<" ">> \o Join(Tail(ws))

\* The questions of at most MaxWords words, and three questions in full.
Phrases ==
    { Join(ws) : ws \in UNION { [1..n -> Range(Words)] : n \in 0..MaxWords } }
    \cup { <<"c", "o", "m", "p", "a", "r", "e", " ", "r", "e", "v", "e", "n", "u", "e", " ", "g", "r", "o", "w", "t", "h">>,
           <<"H", "o", "w", " ", "i", "s", " ", "S", "h", "e", "l", "l", "'", "s", " ", "c", "a", "s", "h", " ", "f", "l", "o", "w", "?">>,
           <<"H", "o", "w", " ", "a", "r", "e", " ", "t", "h", "e", " ", "m", "a", "j", "o", "r", "s", " ", "d", "o", "i", "n", "g", "?">> }

\* The questions asked of the context assembler over a store with history.
ContextQuestions ==
    { <<"P", "e", "r", "f", "o", "r", "m", "a", "n", "c", "e", " ", "o", "f", " ", "E", "x", "x", "o", "n", "M", "o", "b", "i", "l", ",", " ", "B", "P", " ", "a", "n", "d", " ", "S", "h", "e", "l", "l", " ", "o", "v", "e", "r", " ", "t", "i", "m", "e">>,
      <<"R", "e", "v", "e", "n", "u", "e", " ", "t", "r", "e", "n", "d", "?">>,
      <<"H", "o", "w", " ", "i", "s", " ", "S", "h", "e", "l", "l", "'", "s", " ", "c", "a", "s", "h", " ", "f", "l", "o", "w", "?">>,
      <<"B", "P", " ", "s", "a", "l", "e", "s", " ", "g", "r", "o", "w", "t", "h">>,
      <<"A", "n", "y", " ", "d", "e", "c", "l", "i", "n", "e", " ", "a", "t", " ", "S", "h", "e", "l", "l", "?">> }

\* Every question of the model.
AllQuestions == Inputs \cup Phrases \cup ContextQuestions

\* ------------------------------------------------------- _classify_query
ComparisonWords ==
    << <<"c", "o", "m", "p", "a", "r", "e">>,
       <<"v", "s">>,
       <<"v", "e", "r", "s", "u", "s">>,
       <<"b", "e", "t", "w", "e", "e", "n">> >>

PerformanceWords ==
    << <<"p", "e", "r", "f", "o", "r", "m">>,
       <<"p", "e", "r", "f", "o", "r", "m", "a", "n", "c", "e">>,
       <<"r", "e", "s", "u", "l", "t", "s">>,
       <<"e", "a", "r", "n", "i", "n", "g", "s">> >>

FinancialMetricsWords ==
    << <<"r", "e", "v", "e", "n", "u", "e">>,
       <<"i", "n", "c", "o", "m", "e">>,
       <<"p", "r", "o", "f", "i", "t">>,
       <<"c", "a", "s", "h", " ", "f", "l", "o", "w">>,
       <<"d", "e", "b", "t">>,
       <<"f", "i", "n", "a", "n", "c", "i", "a", "l">> >>

OperationalWords ==
    << <<"p", "r", "o", "d", "u", "c", "t", "i", "o", "n">>,
       <<"v", "o", "l", "u", "m", "e">>,
       <<"o", "u", "t", "p", "u", "t">>,
       <<"o", "p", "e", "r", "a", "t", "i", "o", "n", "a", "l">>,
       <<"o", "p", "e", "r", "a", "t", "i", "o", "n", "s">> >>

MarketAnalysisWords ==
    << <<"m", "a", "r", "k", "e", "t">>,
       <<"s", "t", "o", "c", "k">>,
       <<"i", "n", "v", "e", "s", "t", "m", "e", "n", "t">>,
       <<"v", "a", "l", "u", "a", "t", "i", "o", "n">>,
       <<"d", "i", "v", "i", "d", "e", "n", "d">> >>

RiskStrategyWords ==
    << <<"r", "i", "s", "k">>,
       <<"c", "h", "a", "l", "l", "e", "n", "g", "e">>,
       <<"s", "t", "r", "a", "t", "e", "g", "y">>,
       <<"o", "u", "t", "l", "o", "o", "k">>,
       <<"f", "u", "t", "u", "r", "e">> >>

TrendAnalysisWords ==
    << <<"t", "r", "e", "n", "d">>,
       <<"g", "r", "o", "w", "t", "h">>,
       <<"d", "e", "c", "l", "i", "n", "e">>,
       <<"c", "h", "a", "n", "g", "e">>,
       <<"o", "v", "e", "r", " ", "t", "i", "m", "e">> >>

\* the first two tests in the other order
_classify_query_performance_first(query) ==
    LET query_lower == lower(query) IN
    IF AnyIn(PerformanceWords, query_lower) THEN "performance"
    ELSE IF AnyIn(ComparisonWords, query_lower) THEN "comparison"
    ELSE IF AnyIn(FinancialMetricsWords, query_lower) THEN "financial_metrics"
    ELSE IF AnyIn(OperationalWords, query_lower) THEN "operational"
    ELSE IF AnyIn(MarketAnalysisWords, query_lower) THEN "market_analysis"
    ELSE IF AnyIn(RiskStrategyWords, query_lower) THEN "risk_strategy"
    ELSE IF AnyIn(TrendAnalysisWords, query_lower) THEN "trend_analysis"
    ELSE "general"

_classify_query(query) ==
    LET query_lower == lower(query) IN
    IF AnyIn(ComparisonWords, query_lower) THEN "comparison"
    ELSE IF AnyIn(PerformanceWords, query_lower) THEN "performance"
    ELSE IF AnyIn(FinancialMetricsWords, query_lower) THEN "financial_metrics"
    ELSE IF AnyIn(OperationalWords, query_lower) THEN "operational"
    ELSE IF AnyIn(MarketAnalysisWords, query_lower) THEN "market_analysis"
    ELSE IF AnyIn(RiskStrategyWords, query_lower) THEN "risk_strategy"
    ELSE IF AnyIn(TrendAnalysisWords, query_lower) THEN "trend_analysis"
    ELSE "general"

\* _classify_query over the questions asked
Classified == [t \in Inputs |-> _classify_query(t)]

QueryTypes ==
    {"comparison", "performance", "financial_metrics", "operational",
     "market_analysis", "risk_strategy", "trend_analysis", "general"}

\* ------------------------------------------------ _post_process_response
_post_process_response(response, query_type) ==
    IF query_type = "comparison" THEN
        IF ~IsSubstr(CHART, response) THEN CHART \o <<" ">> \o response ELSE response
    ELSE IF query_type = "performance" THEN
        IF ~IsSubstr(CHART_UP, response) /\ ~IsSubstr(CHART_DOWN, response)
        THEN CHART_UP \o <<" ">> \o response ELSE response
    ELSE IF query_type = "financial_metrics" THEN
        IF ~IsSubstr(MONEY_BAG, response) THEN MONEY_BAG \o <<" ">> \o response ELSE response
    ELSE IF query_type = "operational" THEN
        IF ~IsSubstr(OIL_DRUM, response) THEN OIL_DRUM \o <<" ">> \o response ELSE response
    ELSE IF query_type = "market_analysis" THEN
        IF ~IsSubstr(CHART, response) THEN CHART \o <<" ">> \o response ELSE response
    ELSE IF query_type = "risk_strategy" THEN
        IF ~IsSubstr(WARNING, response) /\ ~IsSubstr(TARGET, response)
        THEN TARGET \o <<" ">> \o response ELSE response
    ELSE IF query_type = "trend_analysis" THEN
        IF ~IsSubstr(CHART_UP, response) /\ ~IsSubstr(CHART_DOWN, response)
        THEN CHART \o <<" ">> \o response ELSE response
    ELSE response

\* ------------------------------------------------------ _fallback_response
Text(t) == [kind |-> "text", text |-> t]
Raised == [kind |-> "raise", text |-> << >>]

FallbackComparisonWords ==
    << <<"c", "o", "m", "p", "a", "r", "e">>,
       <<"v", "s">>,
       <<"v", "e", "r", "s", "u", "s">>,
       <<"b", "e", "t", "t", "e", "r">>,
       <<"b", "e", "s", "t">>,
       <<"a", "n", "a", "l", "y", "t", "i", "c", "s">>,
       <<"p", "e", "r", "f", "o", "r", "m">> >>

\* The figures the comparison formats with "," and a precision: format()
\* of None raises TypeError.
FormattedInComparison == {"revenue", "net_income", "free_cash_flow", "production_volume"}

\* Python truth of a number that may be None
Truthy(x) == x # None /\ x[1] # 0

\* f"{margin:.1f}" of (net_income / revenue) * 100, in tenths of a percent
\* rounded to the nearest
MarginTenths(net_income, revenue) == (2000 * net_income + revenue) \div (2 * revenue)

CompanyBlock(company, data) ==
    <<company, "Revenue", ToString(data.revenue[1]),
      "Net Income", ToString(data.net_income[1]),
      "Free Cash Flow", ToString(data.free_cash_flow[1]),
      "Production", ToString(data.production_volume[1]),
      IF data.production_unit = None THEN "None" ELSE data.production_unit[1]>>
    \o (IF Truthy(data.revenue) /\ Truthy(data.net_income) /\ data.revenue[1] > 0
        THEN <<"Profit Margin", ToString(MarginTenths(data.net_income[1], data.revenue[1]))>>
        ELSE << >>)

\* sorted(company_data.items(), key=..., reverse=True)[0]: the sort is
\* stable, so the first company in dict order among those of the greatest key
Leader(order, company_data, field) ==
    order[CHOOSE i \in 1..Len(order) :
            /\ \A j \in 1..Len(order) :
                  company_data[order[j]][1][field][1] <= company_data[order[i]][1][field][1]
            /\ \A j \in 1..(i - 1) :
                  company_data[order[j]][1][field][1] < company_data[order[i]][1][field][1]]

RECURSIVE Blocks(_, _)
Blocks(order, company_data) ==
    IF order = << >> THEN << >>
    ELSE CompanyBlock(Head(order), company_data[Head(order)][1]) \o Blocks(Tail(order), company_data)

\* The comparison branch.  latest[c] is what get_latest_financial_data(c)
\* of the DatabaseManager opened here returns.
FallbackComparison(latest) ==
    LET all == <<"Shell", "BP", "ExxonMobil", "Chevron">>
        order == SelectSeq(all, LAMBDA c : latest[c] # None)
    IN  IF \E i \in 1..Len(order) : \E f \in FormattedInComparison : latest[order[i]][1][f] = None
        THEN Raised
        ELSE Text(CHART \o <<" COMPANY PERFORMANCE COMPARISON">>
                  \o Blocks(order, latest)
                  \o (IF order # << >>
                      THEN <<"KEY RANKINGS:",
                             "Revenue Leader", Leader(order, latest, "revenue"),
                             "Profit Leader", Leader(order, latest, "net_income"),
                             "Cash Flow Leader", Leader(order, latest, "free_cash_flow")>>
                      ELSE << >>)
                  \o <<"For detailed AI-powered analysis ... add credits">>)

\* Which branch of _fallback_response a question takes.
FallbackBranch(user_query) ==
    LET query_lower == lower(user_query) IN
    IF IsSubstr(<<"s", "h", "e", "l", "l">>, query_lower) THEN "shell"
    ELSE IF IsSubstr(<<"b", "p">>, query_lower) THEN "bp"
    ELSE IF \/ IsSubstr(<<"e", "x", "x", "o", "n", "m", "o", "b", "i", "l">>, query_lower)
            \/ IsSubstr(<<"e", "x", "x", "o", "n">>, query_lower) THEN "exxonmobil"
    ELSE IF IsSubstr(<<"c", "h", "e", "v", "r", "o", "n">>, query_lower) THEN "chevron"
    ELSE IF AnyIn(FallbackComparisonWords, query_lower) THEN "comparison"
    ELSE "else"

\* FallbackBranch over the questions asked
Branch == [t \in Inputs |-> FallbackBranch(t)]

_fallback_response(user_query, latest) ==
    LET branch == Branch[user_query] IN
    IF branch = "shell" THEN Text(<<"Based on Shell's latest financial data in our database: ...">>)
    ELSE IF branch = "bp" THEN Text(<<"Based on BP's latest financial data in our database: ...">>)
    ELSE IF branch = "exxonmobil"
        THEN Text(<<"Based on ExxonMobil's latest financial data in our database: ...">>)
    ELSE IF branch = "chevron"
        THEN Text(<<"Based on Chevron's latest financial data in our database: ...">>)
    ELSE IF branch = "comparison" THEN FallbackComparison(latest)
    ELSE Text(<<"I have access to financial data from Shell, BP, ExxonMobil, and Chevron, but ...">>)

\* -------------------------------------------------- get_context_for_query
CompanyName ==
    [c \in Range(TRACKED_COMPANIES) |->
        CASE c = "Shell" -> <<"S", "h", "e", "l", "l">>
          [] c = "BP" -> <<"B", "P">>
          [] c = "ExxonMobil" -> <<"E", "x", "x", "o", "n", "M", "o", "b", "i", "l">>
          [] c = "Chevron" -> <<"C", "h", "e", "v", "r", "o", "n">>]

\* the fallback to every tracked company left out
relevant_companies_of_mentioned_only(query) ==
    LET query_lower == lower(query)
    IN  SelectSeq(TRACKED_COMPANIES, LAMBDA c : IsSubstr(lower(CompanyName[c]), query_lower))

\* The tracked companies whose name occurs in the question, or all of them.
relevant_companies_of(query) ==
    LET query_lower == lower(query)
        mentioned == SelectSeq(TRACKED_COMPANIES,
                               LAMBDA c : IsSubstr(lower(CompanyName[c]), query_lower))
    IN  IF mentioned = << >> THEN TRACKED_COMPANIES ELSE mentioned

\* relevant_companies_of over the questions of the model
Relevant == [t \in AllQuestions |-> relevant_companies_of(t)]

\* metric_keywords: tag and keywords, in dict order
metric_keywords ==
    << <<"revenue", << <<"r", "e", "v", "e", "n", "u", "e">>,
           <<"s", "a", "l", "e", "s">>,
           <<"i", "n", "c", "o", "m", "e", " ", "s", "t", "a", "t", "e", "m", "e", "n", "t">> >>>>,
       <<"net_income", << <<"p", "r", "o", "f", "i", "t">>,
           <<"e", "a", "r", "n", "i", "n", "g", "s">>,
           <<"n", "e", "t", " ", "i", "n", "c", "o", "m", "e">>,
           <<"b", "o", "t", "t", "o", "m", " ", "l", "i", "n", "e">> >>>>,
       <<"cash_flow", << <<"c", "a", "s", "h", " ", "f", "l", "o", "w">>,
           <<"c", "a", "s", "h">>,
           <<"l", "i", "q", "u", "i", "d", "i", "t", "y">> >>>>,
       <<"production", << <<"p", "r", "o", "d", "u", "c", "t", "i", "o", "n">>,
           <<"o", "u", "t", "p", "u", "t">>,
           <<"v", "o", "l", "u", "m", "e">>,
           <<"b", "a", "r", "r", "e", "l", "s">> >>>>,
       <<"debt", << <<"d", "e", "b", "t">>,
           <<"l", "e", "v", "e", "r", "a", "g", "e">>,
           <<"b", "o", "r", "r", "o", "w", "i", "n", "g">> >>>>,
       <<"dividend", << <<"d", "i", "v", "i", "d", "e", "n", "d">>,
           <<"p", "a", "y", "o", "u", "t">>,
           <<"s", "h", "a", "r", "e", "h", "o", "l", "d", "e", "r", " ", "r", "e", "t", "u", "r", "n">> >>>> >>

\* The tags one of whose keywords occurs in the question, in dict order.
relevant_metrics_of(query) ==
    LET query_lower == lower(query)
        found == SelectSeq(metric_keywords, LAMBDA e : AnyIn(e[2], query_lower))
    IN  [k \in 1..Len(found) |-> found[k][1]]

RelevantMetrics == [t \in AllQuestions |-> relevant_metrics_of(t)]

HistoryWords ==
    << <<"t", "r", "e", "n", "d">>,
       <<"g", "r", "o", "w", "t", "h">>,
       <<"p", "e", "r", "f", "o", "r", "m", "a", "n", "c", "e">>,
       <<"o", "v", "e", "r", " ", "t", "i", "m", "e">> >>

\* any(word in query_lower for word in ["trend", "growth", "performance", "over time"])
history_asked(query) == AnyIn(HistoryWords, lower(query))

HistoryAsked == [t \in AllQuestions |-> history_asked(t)]

\* get_historical_trends(company, metric, 4)
HistoryPeriods == 4

\* every relevant company instead of the first two
history_companies_all(relevant_companies) == relevant_companies

\* context["relevant_companies"][:2]
history_companies(relevant_companies) ==
    SubSeq(relevant_companies, 1, IF Len(relevant_companies) < 2 THEN Len(relevant_companies) ELSE 2)

\* The companies get_historical_trends is called for.
fetched_companies(query) ==
    IF HistoryAsked[query] THEN history_companies(Relevant[query]) ELSE << >>

\* get_context_for_query as it would be if the latest report of every tracked
\* company went into comparison_data, relevant or not
get_context_for_query_all_tracked(query, latest, trends) ==
    LET relevant_companies == Relevant[query]
        fetched == Range(fetched_companies(query))
    IN  [query |-> query,
         relevant_companies |-> relevant_companies,
         relevant_metrics |-> RelevantMetrics[query],
         comparison_data |-> [c \in { d \in Range(TRACKED_COMPANIES) : latest[d] # None } |->
                                 latest[c][1]],
         historical_data |->
             [c \in { d \in fetched : \E m \in Metrics : trends[d][m] # << >> } |->
                 [m \in { n \in Metrics : trends[c][n] # << >> } |-> trends[c][m]]]]

\* latest[c] is what get_latest_financial_data(c) returns, trends[c][m] what
\* the call get_historical_trends(c, m, 4) returns.
get_context_for_query(query, latest, trends) ==
    LET relevant_companies == Relevant[query]
        fetched == Range(fetched_companies(query))
    IN  [query |-> query,
         relevant_companies |-> relevant_companies,
         relevant_metrics |-> RelevantMetrics[query],
         comparison_data |-> [c \in { d \in Range(relevant_companies) : latest[d] # None } |->
                                 latest[c][1]],
         historical_data |->
             [c \in { d \in fetched : \E m \in Metrics : trends[d][m] # << >> } |->
                 [m \in { n \in Metrics : trends[c][n] # << >> } |-> trends[c][m]]]]

\* ----------------------------------------------------- format_user_prompt
\* The figures of every company in comparison_data are formatted with ","
\* and a precision: one that is None raises TypeError.
FormattedInPrompt ==
    {"revenue", "net_income", "operating_income", "free_cash_flow",
     "cash_and_equivalents", "total_debt", "production_volume"}

format_user_prompt_raises(context_data) ==
    \E c \in DOMAIN context_data.comparison_data :
        \E f \in FormattedInPrompt : context_data.comparison_data[c][f] = None

\* ------------------------------------------------------ generate_response
\* What chat.completions.create does: it raises, or it answers with no
\* choices, or with one choice whose message content is None or a text.
BackendTexts == { << >>, <<" ">>, <<" ", "Revenue grew.">> }

BackendOutcomes ==
    { [kind |-> "raise", content |-> None], [kind |-> "no_choices", content |-> None],
      [kind |-> "content", content |-> None] }
    \cup { [kind |-> "content", content |-> Some(t)] : t \in BackendTexts }

NotCalled == [kind |-> "not_called", content |-> None]

\* generate_response as it would be with a second completion call after a
\* failed one
generate_response_retrying(user_query, context_data, outcome, latest) ==
    IF ~client
    THEN [result |-> _fallback_response(user_query, latest), calls |-> 0, fallback |-> TRUE]
    ELSE LET query_type == Classified[user_query] IN
         IF format_user_prompt_raises(context_data)
         THEN [result |-> _fallback_response(user_query, latest), calls |-> 0, fallback |-> TRUE]
         ELSE IF outcome.kind \in {"raise", "no_choices"}
         THEN [result |-> _fallback_response(user_query, latest), calls |-> 2, fallback |-> TRUE]
         ELSE LET generated_response ==
                      IF outcome.content # None /\ outcome.content[1] # << >>
                      THEN strip(outcome.content[1])
                      ELSE <<"No response generated">>
              IN  [result |-> Text(_post_process_response(generated_response, query_type)),
                   calls |-> 1, fallback |-> FALSE]

\* [result, calls, fallback]: the value returned (or the exception), the
\* completion calls made, and whether _fallback_response ran.
generate_response(user_query, context_data, outcome, latest) ==
    IF ~client
    THEN [result |-> _fallback_response(user_query, latest), calls |-> 0, fallback |-> TRUE]
    ELSE LET query_type == Classified[user_query] IN
         IF format_user_prompt_raises(context_data)
         THEN [result |-> _fallback_response(user_query, latest), calls |-> 0, fallback |-> TRUE]
         ELSE IF outcome.kind \in {"raise", "no_choices"}
         THEN [result |-> _fallback_response(user_query, latest), calls |-> 1, fallback |-> TRUE]
         ELSE LET generated_response ==
                      IF outcome.content # None /\ outcome.content[1] # << >>
                      THEN strip(outcome.content[1])
                      ELSE <<"No response generated">>
              IN  [result |-> Text(_post_process_response(generated_response, query_type)),
                   calls |-> 1, fallback |-> FALSE]

\* ---------------------------------------------------------- process_query
\* What get_latest_financial_data returns for each tracked company while the
\* store stays as it is.
LatestPicks ==
    { [Shell |-> a, BP |-> b, ExxonMobil |-> c, Chevron |-> d] :
        a \in get_latest_financial_data("Shell"), b \in get_latest_financial_data("BP"),
        c \in get_latest_financial_data("ExxonMobil"), d \in get_latest_financial_data("Chevron") }

\* What the calls get_historical_trends(c, m, 4) of get_context_for_query
\* return while the store stays as it is.
TrendsOf(c) ==
    { [revenue |-> a, net_income |-> b] :
        a \in get_historical_trends(c, "revenue", HistoryPeriods),
        b \in get_historical_trends(c, "net_income", HistoryPeriods) }

RECURSIVE TrendsOver(_)
TrendsOver(cs) ==
    IF Len(cs) = 0 THEN { << >> }
    ELSE IF Len(cs) = 1 THEN { (cs[1] :> p) : p \in TrendsOf(cs[1]) }
    ELSE { (cs[1] :> p) @@ f : p \in TrendsOf(cs[1]), f \in TrendsOver(Tail(cs)) }

HistoryPicks(query) == TrendsOver(fetched_companies(query))

\* get_all_companies: SELECT name ... ORDER BY name (BINARY collation), as
\* get_available_companies lists it
\* get_available_companies as it would be without ORDER BY name: the rows in
\* insert order
get_available_companies_insert_order == companies

get_available_companies ==
    LET alphabetical == <<"BP", "Chevron", "ExxonMobil", "Shell">> IN
    SelectSeq(alphabetical, LAMBDA c : c \in Range(companies))
    \o SelectSeq(companies, LAMBDA c : c \notin Range(alphabetical))

\* [result, calls, fallback] of process_query; the 'refresh' command is the
\* operation update_all_reports and no input here.
Command(user_input) ==
    LET input == lower(strip(user_input)) IN
    IF input \in {<<"e", "x", "i", "t">>, <<"q", "u", "i", "t">>} THEN "exit"
    ELSE IF input = <<"r", "e", "f", "r", "e", "s", "h">> THEN "refresh"
    ELSE IF input = <<"c", "o", "m", "p", "a", "n", "i", "e", "s">> THEN "companies"
    ELSE "none"

\* Command and strip over the questions asked
Commands == [q \in Range(Questions) |-> Command(q)]
Stripped == [q \in Range(Questions) |-> strip(q)]

process_query(user_input, outcome, latest, trends) ==
    LET input == Stripped[user_input] IN
    IF Commands[user_input] = "exit"
    THEN [result |-> Text(<<"exit">>), calls |-> 0, fallback |-> FALSE]
    ELSE IF Commands[user_input] = "companies"
    THEN [result |-> Text(CHART \o <<" Available companies: ">> \o get_available_companies),
          calls |-> 0, fallback |-> FALSE]
    ELSE generate_response(input, get_context_for_query(input, latest, trends), outcome, latest)

ProcessQuery ==
    \E q \in Range(Questions), outcome \in BackendOutcomes, latest \in LatestPicks :
    \E trends \in HistoryPicks(Stripped[q]) :
      LET r == process_query(q, outcome, latest, trends) IN
        /\ pc = "ready"
        /\ Commands[q] # "refresh"
        /\ op' = "process_query"
        /\ args' = [user_input |-> q,
                    outcome |-> IF r.calls > 0 THEN outcome ELSE NotCalled,
                    latest |-> latest]
        /\ ret' = r.result
        /\ calls' = r.calls
        \* the comparison branch of _fallback_response opens a DatabaseManager,
        \* whose __init__ runs _init_database
        /\ LET db == IF r.fallback /\ Branch[Stripped[q]] = "comparison"
                     THEN _init_database([companies |-> companies,
                                          financial_reports |-> financial_reports])
                     ELSE [companies |-> companies, financial_reports |-> financial_reports]
           IN  /\ companies' = db.companies
               /\ financial_reports' = db.financial_reports
        /\ UNCHANGED <<clock, client, probe, pc>>

\* ------------------------------------------------------------ is_available
is_available ==
    /\ pc = "init"
    /\ pc' = "ready"
    /\ op' = "is_available" /\ args' = << >>
    /\ IF ~client
       THEN ret' = FALSE /\ calls' = 0 /\ probe' = "failed"
       ELSE \E ok \in BOOLEAN :
                /\ ret' = ok
                /\ calls' = 1
                /\ probe' = IF ok THEN "ok" ELSE "failed"
    /\ UNCHANGED <<companies, financial_reports, clock, client>>

\* ------------------------------------------------------ rational numbers
\* The figures of the analysis engine are quotients of integers.  A number
\* is [n, d] in lowest terms with d > 0; Python computes the same quotients
\* in binary floating point, to the nearest.
Abs(x) == IF x < 0 THEN -x ELSE x

RECURSIVE Gcd(_, _)
Gcd(a, b) == IF b = 0 THEN a ELSE Gcd(b, a % b)

\* n / d, d # 0
Q(n, d) ==
    LET g == Gcd(Abs(n), Abs(d))
        sgn == IF d < 0 THEN -1 ELSE 1
    IN  [n |-> (sgn * n) \div g, d |-> (sgn * d) \div g]

QAdd(a, b) == Q(a.n * b.d + b.n * a.d, a.d * b.d)
QSub(a, b) == Q(a.n * b.d - b.n * a.d, a.d * b.d)
QMul(a, b) == Q(a.n * b.n, a.d * b.d)
QLess(a, b) == a.n * b.d < b.n * a.d
QMin(a, b) == IF QLess(b, a) THEN b ELSE a
QMax(a, b) == IF QLess(a, b) THEN b ELSE a
QAbs(a) == [n |-> Abs(a.n), d |-> a.d]

\* ----------------------------------------------- FinancialIntelligenceEngine
\* `x or dflt` of a number that may be None
OrElse(x, dflt) == IF Truthy(x) THEN x[1] ELSE dflt

\* max(a, 1) of two integers
Max1(a) == IF a > 1 THEN a ELSE 1

\* _calculate_financial_metrics(data).  max(None, 1) raises TypeError.
_calculate_financial_metrics(data) ==
    LET revenue == OrElse(Get(data, "revenue"), 1)
        net_income == OrElse(Get(data, "net_income"), 0)
        free_cash_flow == OrElse(Get(data, "free_cash_flow"), 0)
        total_debt == OrElse(Get(data, "total_debt"), 0)
        cash == OrElse(Get(data, "cash_and_equivalents"), 1)
        production_volume == GetD(data, "production_volume", 1)
    IN  IF production_volume = None
        THEN [kind |-> "raise"]
        ELSE [kind |-> "metrics",
              profit_margin |-> Q(net_income * 100, revenue),
              cash_conversion |-> Q(free_cash_flow, Max1(net_income)),
              debt_ratio |-> Q(total_debt, cash),
              revenue_per_boe |-> Q(revenue * 1000, Max1(production_volume[1]))]

\* The composite score of _rank_companies_by_investment_score.
total_score(metrics) ==
    LET profitability_score == QMin(QMul(metrics.profit_margin, Q(2, 1)), Q(40, 1))
        cash_score == QMin(QMul(QAbs(metrics.cash_conversion), Q(30, 1)), Q(30, 1))
        debt_score == QMax(QSub(Q(30, 1), QMul(metrics.debt_ratio, Q(10, 1))), Q(0, 1))
    IN  QAdd(QAdd(profitability_score, cash_score), debt_score)

\* sorted(ranked, key=lambda x: x[1], reverse=True): the sort is stable, and
\* stays so under reverse=True, so an entry goes behind every entry of a
\* score not less than its own.
RECURSIVE InsertByScore(_, _)
InsertByScore(sorted, e) ==
    IF sorted = << >> THEN <<e>>
    ELSE IF QLess(Head(sorted).score, e.score) THEN <<e>> \o sorted
    ELSE <<Head(sorted)>> \o InsertByScore(Tail(sorted), e)

RECURSIVE SortedByScore(_, _)
SortedByScore(sorted, rest) ==
    IF rest = << >> THEN sorted
    ELSE SortedByScore(InsertByScore(sorted, Head(rest)), Tail(rest))

\* _rank_companies_by_investment_score(companies_data), the keys of
\* companies_data being `order`; latest[c] is what
\* get_latest_financial_data(c) returns.
_rank_companies_by_investment_score(order, latest) ==
    LET with_data == SelectSeq(order, LAMBDA c : latest[c] # None)
        ranked == [i \in 1..Len(with_data) |->
                     LET metrics == _calculate_financial_metrics(latest[with_data[i]][1])
                     IN  [company |-> with_data[i],
                          score |-> IF metrics.kind = "raise" THEN Q(0, 1) ELSE total_score(metrics),
                          metrics |-> metrics]]
    IN  IF \E i \in 1..Len(ranked) : ranked[i].metrics.kind = "raise"
        THEN [kind |-> "raise", rankings |-> << >>]
        ELSE [kind |-> "rankings", rankings |-> SortedByScore(<< >>, ranked)]

\* analyze_investment_opportunity, the report given by the rankings it
\* prints.
analyze_investment_opportunity(latest) ==
    LET order == SelectSeq(TRACKED_COMPANIES, LAMBDA c : latest[c] # None)
    IN  IF \E i \in 1..Len(order) : _calculate_financial_metrics(latest[order[i]][1]).kind = "raise"
        THEN [kind |-> "raise", rankings |-> << >>]
        ELSE IF order = << >> THEN [kind |-> "no_data", rankings |-> << >>]
        ELSE _rank_companies_by_investment_score(order, latest)

\* margin >= 25 and so on: the comparisons made inclusive
_assess_profitability_inclusive(metrics) ==
    LET margin == metrics.profit_margin IN
    IF ~QLess(margin, Q(25, 1)) THEN "Exceptional"
    ELSE IF ~QLess(margin, Q(15, 1)) THEN "Strong"
    ELSE IF ~QLess(margin, Q(10, 1)) THEN "Good"
    ELSE IF ~QLess(margin, Q(5, 1)) THEN "Fair"
    ELSE "Weak"

_assess_profitability(metrics) ==
    LET margin == metrics.profit_margin IN
    IF QLess(Q(25, 1), margin) THEN "Exceptional"
    ELSE IF QLess(Q(15, 1), margin) THEN "Strong"
    ELSE IF QLess(Q(10, 1), margin) THEN "Good"
    ELSE IF QLess(Q(5, 1), margin) THEN "Fair"
    ELSE "Weak"

_assess_financial_strength(metrics) ==
    LET debt_ratio == metrics.debt_ratio IN
    IF QLess(debt_ratio, Q(1, 1)) THEN "Very Strong"
    ELSE IF QLess(debt_ratio, Q(15, 10)) THEN "Strong"
    ELSE IF QLess(debt_ratio, Q(25, 10)) THEN "Moderate"
    ELSE "Weak"

_assess_cash_generation(metrics) ==
    LET conversion == metrics.cash_conversion IN
    IF QLess(Q(8, 10), conversion) THEN "Excellent"
    ELSE IF QLess(Q(6, 10), conversion) THEN "Good"
    ELSE IF QLess(Q(4, 10), conversion) THEN "Fair"
    ELSE "Poor"

\* the second case tested before the first
_determine_investment_grade_hold_first(metrics) ==
    LET profit_margin == metrics.profit_margin
        debt_ratio == metrics.debt_ratio
    IN  IF QLess(Q(15, 1), profit_margin) /\ QLess(debt_ratio, Q(2, 1))
        THEN "HOLD - Good fundamentals"
        ELSE IF QLess(Q(20, 1), profit_margin) /\ QLess(debt_ratio, Q(15, 10))
        THEN "BUY - Strong fundamentals"
        ELSE IF QLess(Q(10, 1), profit_margin) THEN "HOLD - Fair fundamentals"
        ELSE "CAUTION - Weak fundamentals"

_determine_investment_grade(metrics) ==
    LET profit_margin == metrics.profit_margin
        debt_ratio == metrics.debt_ratio
    IN  IF QLess(Q(20, 1), profit_margin) /\ QLess(debt_ratio, Q(15, 10))
        THEN "BUY - Strong fundamentals"
        ELSE IF QLess(Q(15, 1), profit_margin) /\ QLess(debt_ratio, Q(2, 1))
        THEN "HOLD - Good fundamentals"
        ELSE IF QLess(Q(10, 1), profit_margin) THEN "HOLD - Fair fundamentals"
        ELSE "CAUTION - Weak fundamentals"

\* f"{x:,.0f}" and f"{x:,.1f}": a TypeError on None
FormatRaises(x) == x = None

\* The figures analyze_company_performance and compare_companies format
FormattedInReport == {"revenue", "net_income", "free_cash_flow", "production_volume"}

\* analyze_company_performance, given what get_latest_financial_data returns
analyze_company_performance(company, data) ==
    IF data = None THEN [kind |-> "no_data"]
    ELSE LET metrics == _calculate_financial_metrics(data[1]) IN
         IF metrics.kind = "raise" THEN [kind |-> "raise"]
         ELSE IF \E k \in FormattedInReport : FormatRaises(GetD(data[1], k, 0))
         THEN [kind |-> "raise"]
         ELSE [kind |-> "text",
               profitability |-> _assess_profitability(metrics),
               financial_strength |-> _assess_financial_strength(metrics),
               cash_generation |-> _assess_cash_generation(metrics),
               investment_grade |-> _determine_investment_grade(metrics)]

\* max(companies_data.items(), key=lambda x: x[1].get(field, 0)): the first
\* of the largest; None does not compare with a number
RECURSIVE MaxByField(_, _, _, _)
MaxByField(order, latest, field, best) ==
    IF order = << >> THEN best
    ELSE LET v == GetD(latest[Head(order)][1], field, 0) IN
         IF v = None \/ best.kind = "raise" THEN [kind |-> "raise"]
         ELSE IF best.kind = "none" \/ v[1] > best.value
         THEN MaxByField(Tail(order), latest, field,
                         [kind |-> "leader", company |-> Head(order), value |-> v[1]])
         ELSE MaxByField(Tail(order), latest, field, best)

\* compare_companies of the engine
compare_companies(latest) ==
    LET order == SelectSeq(TRACKED_COMPANIES, LAMBDA c : latest[c] # None)
        RaisesFor(c) ==
            \/ _calculate_financial_metrics(latest[c][1]).kind = "raise"
            \/ \E k \in FormattedInReport : FormatRaises(GetD(latest[c][1], k, 0))
        revenue_leader == MaxByField(order, latest, "revenue", [kind |-> "none"])
        profit_leader == MaxByField(order, latest, "net_income", [kind |-> "none"])
        cashflow_leader == MaxByField(order, latest, "free_cash_flow", [kind |-> "none"])
    IN  IF Len(order) < 2 THEN [kind |-> "insufficient"]
        ELSE IF \E i \in 1..Len(order) : RaisesFor(order[i]) THEN [kind |-> "raise"]
        ELSE IF \E l \in {revenue_leader, profit_leader, cashflow_leader} : l.kind = "raise"
        THEN [kind |-> "raise"]
        ELSE [kind |-> "text",
              revenue_leader |-> revenue_leader.company,
              profit_leader |-> profit_leader.company,
              cashflow_leader |-> cashflow_leader.company]

\* ------------------------------------------------------- specifications
\* Every operation.
Next ==
    \/ is_available
    \/ Tick
    \/ Put
    \/ Latest
    \/ History
    \/ HasRecent
    \/ ProcessQuery

Spec == Init /\ [][Next]_vars

\* The record store and the clock: writes, and the reads that depend on
\* the time of a write.
InitStore == Init /\ ~client

NextStore ==
    \/ Tick
    \/ Put
    \/ Latest
    \/ HasRecent

SpecStore == InitStore /\ [][NextStore]_vars

\* The record store read through get_historical_trends, which orders by
\* report_date alone.
NextHistory ==
    \/ Put
    \/ History

SpecHistory == InitStore /\ [][NextHistory]_vars

\* The chatbot session: the start-up probe, writes and questions.  No
\* operation here reads the clock or a row's created_at except the tie-break
\* of get_latest_financial_data, and with the clock at rest every row ties
\* on created_at, so that every report of the greatest report_date may be
\* the one it returns.
NextChat ==
    \/ is_available
    \/ Put
    \/ ProcessQuery

SpecChat == Init /\ [][NextChat]_vars

\* _post_process_response on its own: a text of at most MaxTextLen tokens
\* and a category are drawn, and the function is applied.
Alphabet ==
    {"x", " ", "U+1F4CA", "U+1F4C8", "U+1F4C9", "U+1F4B0", "U+1F6E2", "U+FE0F",
     "U+26A0", "U+1F3AF"}

Texts == UNION { [1..n -> Alphabet] : n \in 0..MaxTextLen }

InitPost == InitWith([response : Texts, query_type : QueryTypes])

PostProcess ==
    /\ op = "input"
    /\ op' = "_post_process_response"
    /\ ret' = _post_process_response(args.response, args.query_type)
    /\ UNCHANGED <<companies, financial_reports, clock, client, probe, pc, args, calls>>

SpecPost == InitPost /\ [][PostProcess]_vars

\* The functions of the question alone: a question is drawn, and
\* _classify_query is applied to it.
InitQuestion == InitWith([query : Phrases])

\* get_context_for_query(q) on the store as it is
Context(q) ==
    \E latest \in LatestPicks, trends \in HistoryPicks(q) :
        /\ op' = "get_context_for_query"
        /\ args' = [query |-> q]
        /\ ret' = get_context_for_query(q, latest, trends)
        /\ calls' = 0
        /\ UNCHANGED <<companies, financial_reports, clock, client, probe, pc>>

Classify ==
    /\ op = "input"
    /\ op' = "_classify_query"
    /\ ret' = _classify_query(args.query)
    /\ UNCHANGED <<companies, financial_reports, clock, client, probe, pc, args, calls>>

ContextOfQuestion == op = "input" /\ Context(args.query)

NextQuestion ==
    \/ Classify
    \/ ContextOfQuestion

SpecQuestion == InitQuestion /\ [][NextQuestion]_vars

\* The context assembler over a store with history: reports of successive
\* dates are put, one more than get_context_for_query asks history for.
SeriesLen == HistoryPeriods + 1

SeriesInputs ==
    LET date == Some(Len(financial_reports) + 1) IN
    { <<"Shell", Dict(FullFigures(80, 16, 20, 12, 10, 20, 3), "Q1", date)>>,
      <<"Shell", Dict([net_income |-> Some(5), total_debt |-> Some(10)], "Q1", date)>>,
      <<"BP", Dict(FullFigures(90, 9, 11, 7, 30, 15, 2), "Q1", date)>>,
      <<"ExxonMobil", Dict(FullFigures(80, 16, 20, 12, 10, 20, 3), "Q1", date)>> }

PutSeries == \E in \in SeriesInputs : store_financial_report_upto(SeriesLen, in[1], in[2])

GetContext == \E q \in ContextQuestions : Context(q)

NextContext ==
    \/ PutSeries
    \/ GetContext

SpecContext == InitStore /\ [][NextContext]_vars

\* The analysis engine on one report: the figures of a report are drawn,
\* _calculate_financial_metrics is applied to it, and the bands and the grade
\* are read off the metrics.
Opt(values) == {None} \cup { Some(v) : v \in values }

EngineReports ==
    [revenue : Opt({-20, 0, 20}),
     net_income : Opt({-5, 0, 1, 2, 3, 4, 5, 6}),
     free_cash_flow : Opt({2, 3, 4, 5}),
     total_debt : Opt({1, 2, 3, 4, 5, 6}),
     cash_and_equivalents : Opt({-2, 0, 2}),
     production_volume : Opt({-1, 0, 2})]

InitEngine == InitWith([data : EngineReports])

CalcMetrics ==
    /\ op = "input"
    /\ op' = "_calculate_financial_metrics"
    /\ ret' = _calculate_financial_metrics(args.data)
    /\ UNCHANGED <<companies, financial_reports, clock, client, probe, pc, args, calls>>

AssessBands ==
    /\ op = "_calculate_financial_metrics"
    /\ ret.kind = "metrics"
    /\ op' = "_assess"
    /\ args' = [metrics |-> ret]
    /\ ret' = [profitability |-> _assess_profitability(ret),
               financial_strength |-> _assess_financial_strength(ret),
               cash_generation |-> _assess_cash_generation(ret)]
    /\ UNCHANGED <<companies, financial_reports, clock, client, probe, pc, calls>>

Grade ==
    /\ op = "_calculate_financial_metrics"
    /\ ret.kind = "metrics"
    /\ op' = "_determine_investment_grade"
    /\ args' = [metrics |-> ret]
    /\ ret' = _determine_investment_grade(ret)
    /\ UNCHANGED <<companies, financial_reports, clock, client, probe, pc, calls>>

NextEngine ==
    \/ CalcMetrics
    \/ AssessBands
    \/ Grade

SpecEngine == InitEngine /\ [][NextEngine]_vars

\* The investment ranking over the store: reports of three companies are
\* put, among them one with a loss and one without production_volume.
ReportLoss == Dict(FullFigures(80, -40, -30, 0, 60, 20, 3), "Q1", Some(1))

RankInputs ==
    ({"Shell", "BP", "ExxonMobil"} \X {ReportA, ReportB, ReportLoss}) \cup {<<"Shell", ReportC>>}

PutFigures == \E in \in RankInputs : store_financial_report(in[1], in[2])

Rank ==
    \E latest \in LatestPicks :
        /\ op' = "analyze_investment_opportunity"
        /\ args' = [latest |-> latest]
        /\ ret' = analyze_investment_opportunity(latest)
        /\ calls' = 0
        /\ UNCHANGED <<companies, financial_reports, clock, client, probe, pc>>

NextRank ==
    \/ PutFigures
    \/ Rank

SpecRank == InitStore /\ [][NextRank]_vars

\* The store under refreshes: a few hand-entered reports, then
\* update_all_reports under every environment of ScrapeEnvs.
SeedInputs == {<<"Shell", ReportA>>, <<"Shell", ReportC>>, <<"BP", ReportB>>}

PutSeed == \E in \in SeedInputs : store_financial_report(in[1], in[2])

NextRefresh ==
    \/ PutSeed
    \/ Refresh

SpecRefresh == InitStore /\ [][NextRefresh]_vars

\* The whole life of a store: hand-entered reports, refreshes under one
\* outcome for all four companies, questions, and the store opened again.
UniformEnvs == { [c \in Range(TRACKED_COMPANIES) |-> o] : o \in ScrapeOutcomes }

NextLifecycle ==
    \/ is_available
    \/ PutSeed
    \/ RefreshWith(UniformEnvs)
    \/ Reinit
    \/ ProcessQuery

SpecLifecycle == Init /\ [][NextLifecycle]_vars

\* The three reports of the engine over stored figures: complete reports, a
\* loss, a report without revenue and production, and one without revenue
\* alone.
ReportNoRevenue ==
    Dict([FullFigures(80, 16, 20, 12, 10, 20, 3) EXCEPT !.revenue = None], "Q1", Some(1))

EngineInputs == RankInputs \cup {<<"BP", ReportNoRevenue>>}

PutEngineInput == \E in \in EngineInputs : store_financial_report(in[1], in[2])

AnalyzeCompany ==
    \E company \in Range(TRACKED_COMPANIES) :
    \E data \in get_latest_financial_data(company) :
        /\ op' = "analyze_company_performance"
        /\ args' = [company |-> company, data |-> data]
        /\ ret' = analyze_company_performance(company, data)
        /\ calls' = 0
        /\ UNCHANGED <<companies, financial_reports, clock, client, probe, pc>>

CompareCompanies ==
    \E latest \in LatestPicks :
        /\ op' = "compare_companies"
        /\ args' = [latest |-> latest]
        /\ ret' = compare_companies(latest)
        /\ calls' = 0
        /\ UNCHANGED <<companies, financial_reports, clock, client, probe, pc>>

NextReports ==
    \/ PutEngineInput
    \/ AnalyzeCompany
    \/ CompareCompanies
    \/ Rank

SpecReports == InitStore /\ [][NextReports]_vars

\* The read operations over a store with a report of Shell and one of BP.
ReadSeedInputs == {<<"Shell", ReportA>>, <<"BP", ReportB>>}

PutReadSeed == \E in \in ReadSeedInputs : store_financial_report(in[1], in[2])

ListCompanies ==
    /\ op' = "get_all_companies"
    /\ args' = << >>
    /\ ret' = get_available_companies
    /\ calls' = 0
    /\ UNCHANGED <<companies, financial_reports, clock, client, probe, pc>>

NextReads ==
    \/ is_available
    \/ PutReadSeed
    \/ Latest
    \/ History
    \/ HasRecent
    \/ ListCompanies
    \/ GetContext
    \/ ProcessQuery

SpecReads == Init /\ [][NextReads]_vars

\* Puts at different times, then history and latest
NextAgree ==
    \/ Tick
    \/ Put
    \/ History
    \/ Latest

SpecAgree == InitStore /\ [][NextAgree]_vars

\* ------------------------------------------------------------- properties
\* The stored reports of the company named c.
ReportsOf(c) ==
    { r \in Range(financial_reports) : companies[r.company_id] = c }

\* The time a row was written, read back from created_at.
WrittenAt(r) == [day |-> r.created_at[1], tod |-> r.created_at[3]]

\* Instant a is later than instant b.
Later(a, b) == a.day > b.day \/ (a.day = b.day /\ a.tod > b.tod)

SamePeriod(r, q) ==
    /\ r.company_id = q.company_id
    /\ r.report_type = q.report_type
    /\ r.quarter = q.quarter
    /\ r.year = q.year

\* C1: after any sequence of puts the store holds at most one record per
\* (company, report_type, quarter, year).
C1_OneRecordPerPeriod ==
    \A i, j \in 1..Len(financial_reports) :
        i # j => ~SamePeriod(financial_reports[i], financial_reports[j])

\* C6: a put for a company that is not registered returns False and changes
\* neither the reports nor the companies.
C6_UnknownCompanyPutIsNoop ==
    [][ (op' = "store_financial_report" /\ args'.company_name \notin Range(companies))
        => (ret' = FALSE /\ financial_reports' = financial_reports /\ companies' = companies) ]_vars

C6_Witness ==
    /\ op = "store_financial_report"
    /\ args.company_name \notin Range(companies)
    /\ ret = FALSE
    /\ Len(financial_reports) > 0

\* C7: latest(C) is "not found" exactly when C has no stored report, and
\* otherwise a stored report of C that no stored report of C exceeds in
\* report_date (an absent report_date counting below every date).
C7_LatestHasMaxDate ==
    op = "get_latest_financial_data" =>
        LET rows == ReportsOf(args.company_name) IN
        /\ (ret = None) <=> (rows = {})
        /\ ret # None =>
            /\ ret[1] \in rows
            /\ \A q \in rows : ~DateGreater(q.report_date, ret[1].report_date)

\* latest returned a report written before one of a smaller report_date
C7_Witness ==
    /\ op = "get_latest_financial_data"
    /\ ret # None
    /\ \E q \in ReportsOf(args.company_name) :
          /\ DateGreater(ret[1].report_date, q.report_date)
          /\ q.report_date # None
          /\ q.id > ret[1].id

\* C8: among the stored reports of C that share the report_date of the one
\* latest(C) returns, none was written after it.
C8_TieGoesToLastWritten ==
    (op = "get_latest_financial_data" /\ ret # None) =>
        \A q \in ReportsOf(args.company_name) :
            q.report_date = ret[1].report_date => q.id <= ret[1].id

\* C9: history(C, metric, limit) holds at most limit entries, from most
\* recent report_date to oldest, each with a value for the metric; they are
\* the most recent reports of C that have one, reports without one being
\* passed over without using up the limit.
C9_HistoryBoundedOrderedNonNull ==
    op = "get_historical_trends" =>
        LET m == args.metric
            having == { r \in ReportsOf(args.company_name) : r[m] # None }
            got == { ret[i].id : i \in 1..Len(ret) }
        IN  /\ Len(ret) <= args.periods
            /\ Len(ret) = IF Cardinality(having) < args.periods
                          THEN Cardinality(having) ELSE args.periods
            /\ \A i, j \in 1..Len(ret) :
                  i < j => /\ ret[i].id # ret[j].id
                           /\ ~DateGreater(ret[j].report_date, ret[i].report_date)
            /\ \A i \in 1..Len(ret) :
                  /\ ret[i].value # None
                  /\ \E r \in having :
                        /\ r.id = ret[i].id /\ r[m] = ret[i].value
                        /\ r.report_date = ret[i].report_date
                        /\ r.quarter = ret[i].quarter /\ r.year = ret[i].year
            /\ \A r \in having : r.id \notin got =>
                  \A i \in 1..Len(ret) : ~DateGreater(r.report_date, ret[i].report_date)

\* two entries, the more recent one written after the older one
C9_Witness ==
    /\ op = "get_historical_trends"
    /\ Len(ret) = 2
    /\ DateGreater(ret[1].report_date, ret[2].report_date)
    /\ ret[2].report_date # None
    /\ ret[1].id > ret[2].id

\* C10: has_recent(C, within_days) is true exactly when some report of C
\* was written after the instant within_days before now.
C10_RecentIffWrittenInWindow ==
    op = "has_recent_data" =>
        (ret <=> \E r \in ReportsOf(args.company_name) :
                    Later(WrittenAt(r), MinusDays(clock, args.days)))

Responded == op = "process_query" /\ Commands[args.user_input] = "none"

\* C2: with the backend unconfigured, or after the start-up probe failed,
\* every respond returns the fallback's answer and calls the backend not
\* at all.
C2_NoCallWhenUnavailable ==
    (Responded /\ (~client \/ probe = "failed")) =>
        /\ calls = 0
        /\ ret = _fallback_response(Stripped[args.user_input], args.latest)

BackendFailed(outcome) ==
    \/ outcome.kind \in {"raise", "no_choices"}
    \/ outcome.kind = "content" /\ (outcome.content = None \/ outcome.content[1] = << >>)

\* C3: when the backend call raises, answers with no choice or answers
\* with no content, respond returns what the fallback returns for the
\* question.
C3_FailureGivesFallback ==
    (Responded /\ calls > 0 /\ BackendFailed(args.outcome)) =>
        ret = _fallback_response(Stripped[args.user_input], args.latest)

\* C4: processing a question returns a text that is not empty, and does
\* not raise.
C4_AlwaysSomeText ==
    op = "process_query" => (ret.kind = "text" /\ ret.text # << >>)

\* C5: decorating a decorated text changes nothing:
\* post(post(t, c), c) = post(t, c) for every text t and category c.
C5_PostProcessIdempotent ==
    op = "_post_process_response" =>
        _post_process_response(ret, args.query_type) = ret

\* The categories in the order the spec gives them, each with its keywords.
Categories ==
    << <<"comparison", ComparisonWords>>, <<"performance", PerformanceWords>>,
       <<"financial_metrics", FinancialMetricsWords>>, <<"operational", OperationalWords>>,
       <<"market_analysis", MarketAnalysisWords>>, <<"risk_strategy", RiskStrategyWords>>,
       <<"trend_analysis", TrendAnalysisWords>> >>

\* word occurs in question at some position, letter case set aside
Occurs(word, question) ==
    \E i \in 0..(Len(question) - Len(word)) :
        \A j \in 1..Len(word) : lower(<<question[i + j]>>) = <<word[j]>>

\* C11: the classifier answers for every question; its answer is the first
\* category, in the order comparison, performance, financial_metrics,
\* operational, market_analysis, risk_strategy, trend_analysis, one of whose
\* keywords occurs in the question (case-insensitive substring), and general
\* exactly when no keyword occurs.
C11_FirstCategoryWithKeyword ==
    op = "_classify_query" =>
        LET hit == { i \in 1..Len(Categories) :
                       \E k \in 1..Len(Categories[i][2]) : Occurs(Categories[i][2][k], args.query) }
        IN  /\ ret \in QueryTypes
            /\ (ret = "general") <=> (hit = {})
            /\ hit # {} => /\ \E i \in hit : ret = Categories[i][1]
                           /\ \A i \in hit : \A j \in hit :
                                 ret = Categories[i][1] => i <= j

\* 'compare revenue growth', with keywords of comparison, financial_metrics
\* and trend_analysis, is classified comparison
C11_Witness ==
    /\ op = "_classify_query"
    /\ args.query = <<"c", "o", "m", "p", "a", "r", "e", " ", "r", "e", "v", "e", "n", "u", "e", " ",
                      "g", "r", "o", "w", "t", "h">>
    /\ ret = "comparison"

\* C12: relevant_companies holds the tracked companies whose name occurs in
\* the question (case-insensitive substring), each once, or all tracked
\* companies when none occurs, so it is never empty; relevant_metrics holds a
\* tag exactly when one of the tag's keywords occurs in the question.
C12_RelevantCompaniesAndMetrics ==
    op = "get_context_for_query" =>
        LET named == { c \in Range(TRACKED_COMPANIES) : Occurs(lower(CompanyName[c]), args.query) }
            listed == ret.relevant_companies
            tags == ret.relevant_metrics
        IN  /\ Range(listed) = IF named = {} THEN Range(TRACKED_COMPANIES) ELSE named
            /\ listed # << >>
            /\ \A i, j \in 1..Len(listed) : i # j => listed[i] # listed[j]
            /\ \A i \in 1..Len(metric_keywords) :
                  (metric_keywords[i][1] \in Range(tags))
                      <=> \E k \in 1..Len(metric_keywords[i][2]) :
                              Occurs(metric_keywords[i][2][k], args.query)
            /\ \A t \in Range(tags) : \E i \in 1..Len(metric_keywords) : metric_keywords[i][1] = t

\* "How is Shell's cash flow?" gives Shell alone and the tag cash_flow
C12_Witness ==
    /\ op = "get_context_for_query"
    /\ ret.relevant_companies = <<"Shell">>
    /\ "cash_flow" \in Range(ret.relevant_metrics)
    /\ "revenue" \notin Range(ret.relevant_metrics)

RECURSIVE SumOver(_, _)
SumOver(S, f) ==
    IF S = {} THEN 0
    ELSE LET x == CHOOSE y \in S : TRUE IN f[x] + SumOver(S \ {x}, f)

\* C13: the historical sub-map is empty unless the question contains one of
\* trend, growth, performance, over time; it covers only the first two
\* relevant companies and the metrics revenue and net_income, holds at most 4
\* entries per (company, metric), each of a report of that company, and so
\* at most 16 entries in all.
C13_HistoryBounded ==
    op = "get_context_for_query" =>
        LET h == ret.historical_data
            rc == ret.relevant_companies
            asked == \E k \in 1..Len(HistoryWords) : Occurs(HistoryWords[k], args.query)
            pairs == { p \in (DOMAIN h) \X {"revenue", "net_income"} : p[2] \in DOMAIN h[p[1]] }
        IN  /\ ~asked => DOMAIN h = {}
            /\ DOMAIN h \subseteq { rc[i] : i \in { j \in 1..Len(rc) : j <= 2 } }
            /\ \A c \in DOMAIN h : DOMAIN h[c] \subseteq {"revenue", "net_income"}
            /\ \A p \in pairs :
                  /\ Len(h[p[1]][p[2]]) <= 4
                  /\ \A i \in 1..Len(h[p[1]][p[2]]) :
                        \E r \in ReportsOf(p[1]) : r.id = h[p[1]][p[2]][i].id
            /\ SumOver(pairs, [p \in pairs |-> Len(h[p[1]][p[2]])]) <= 16

\* four revenue entries of Shell, which has more than four reports with a
\* revenue
C13_Witness ==
    /\ op = "get_context_for_query"
    /\ "Shell" \in DOMAIN ret.historical_data
    /\ "revenue" \in DOMAIN ret.historical_data["Shell"]
    /\ Len(ret.historical_data["Shell"]["revenue"]) = 4
    /\ Cardinality({ r \in ReportsOf("Shell") : r.revenue # None }) > 4

\* C14: processing one question makes at most one completion call, and when
\* that call fails (it raises, or answers without a choice or without
\* content) the answer is returned after that one call.
C14_NoRetry ==
    op = "process_query" =>
        /\ calls <= 1
        /\ (args.outcome # NotCalled /\ BackendFailed(args.outcome)) => calls = 1

\* the completion call raised and the fallback answered
C14_Witness ==
    /\ Responded
    /\ args.outcome.kind = "raise"
    /\ calls = 1
    /\ ret = _fallback_response(Stripped[args.user_input], args.latest)

\* C15: with the backend unconfigured, a question the classifier puts in
\* category comparison is answered by the multi-company comparison built from
\* the stored reports, which is not empty, also when the question names
\* tracked companies.
C15_FallbackFollowsCategory ==
    (Responded /\ ~client /\ Classified[Stripped[args.user_input]] = "comparison") =>
        /\ ret = FallbackComparison(args.latest)
        /\ ret.kind = "text" /\ ret.text # << >>

\* C16: every composite score of the investment ranking lies in [0, 100].
C16_ScoreWithinBounds ==
    (op = "analyze_investment_opportunity" /\ ret.kind = "rankings") =>
        \A i \in 1..Len(ret.rankings) :
            /\ ~QLess(ret.rankings[i].score, Q(0, 1))
            /\ ~QLess(Q(100, 1), ret.rankings[i].score)

\* C17: the investment ranking lists each company that has data exactly
\* once, from the greatest score to the least, companies of one score in
\* the order of the tracked companies.
C17_RankingOrdered ==
    op = "analyze_investment_opportunity" =>
        LET with_data == { c \in Range(TRACKED_COMPANIES) : ReportsOf(c) # {} }
            position(c) == CHOOSE i \in 1..Len(TRACKED_COMPANIES) : TRACKED_COMPANIES[i] = c
            r == ret.rankings
        IN  /\ ret.kind # "raise"
            /\ { r[i].company : i \in 1..Len(r) } = with_data
            /\ Len(r) = Cardinality(with_data)
            /\ \A i, j \in 1..Len(r) :
                  i < j => /\ ~QLess(r[i].score, r[j].score)
                           /\ r[i].score = r[j].score =>
                                 position(r[i].company) < position(r[j].company)

\* a figure that may be missing, as a number
Val(x) == IF x = None THEN 0 ELSE x[1]

\* C18: for every report, profit_margin = net_income / max(revenue, 1) * 100,
\* cash_conversion = free_cash_flow / max(net_income, 1),
\* debt_ratio = total_debt / max(cash, 1) and
\* revenue_per_boe = revenue / max(production_volume, 1) * 1000.
C18_MetricsFloorDenominators ==
    op = "_calculate_financial_metrics" =>
        LET d == args.data IN
        /\ ret.kind = "metrics"
        /\ ret.profit_margin = Q(Val(d.net_income) * 100, Max1(Val(d.revenue)))
        /\ ret.cash_conversion = Q(Val(d.free_cash_flow), Max1(Val(d.net_income)))
        /\ ret.debt_ratio = Q(Val(d.total_debt), Max1(Val(d.cash_and_equivalents)))
        /\ ret.revenue_per_boe = Q(Val(d.revenue) * 1000, Max1(Val(d.production_volume)))

\* a lies in (lo, hi]
Within(lo, a, hi) == QLess(lo, a) /\ ~QLess(hi, a)

\* C19: the bands follow the threshold table with strict comparisons: a
\* margin above 25 is Exceptional, in (15, 25] Strong, in (10, 15] Good, in
\* (5, 10] Fair, else Weak; a debt_ratio below 1 is Very Strong, in [1, 1.5)
\* Strong, in [1.5, 2.5) Moderate, else Weak; a cash_conversion above 0.8 is
\* Excellent, in (0.6, 0.8] Good, in (0.4, 0.6] Fair, else Poor.
C19_BandsByStrictThresholds ==
    op = "_assess" =>
        LET m == args.metrics.profit_margin
            dr == args.metrics.debt_ratio
            cc == args.metrics.cash_conversion
        IN  /\ ret.profitability =
                  CASE QLess(Q(25, 1), m) -> "Exceptional"
                    [] Within(Q(15, 1), m, Q(25, 1)) -> "Strong"
                    [] Within(Q(10, 1), m, Q(15, 1)) -> "Good"
                    [] Within(Q(5, 1), m, Q(10, 1)) -> "Fair"
                    [] ~QLess(Q(5, 1), m) -> "Weak"
            /\ ret.financial_strength =
                  CASE QLess(dr, Q(1, 1)) -> "Very Strong"
                    [] ~QLess(dr, Q(1, 1)) /\ QLess(dr, Q(3, 2)) -> "Strong"
                    [] ~QLess(dr, Q(3, 2)) /\ QLess(dr, Q(5, 2)) -> "Moderate"
                    [] ~QLess(dr, Q(5, 2)) -> "Weak"
            /\ ret.cash_generation =
                  CASE QLess(Q(4, 5), cc) -> "Excellent"
                    [] Within(Q(3, 5), cc, Q(4, 5)) -> "Good"
                    [] Within(Q(2, 5), cc, Q(3, 5)) -> "Fair"
                    [] ~QLess(Q(2, 5), cc) -> "Poor"

\* margin 25 is Strong, debt_ratio 1 is Strong, cash_conversion 0.8 is Good
C19_Witness ==
    /\ op = "_assess"
    /\ args.metrics.profit_margin = Q(25, 1) /\ ret.profitability = "Strong"
    /\ args.metrics.debt_ratio = Q(1, 1) /\ ret.financial_strength = "Strong"
    /\ args.metrics.cash_conversion = Q(4, 5) /\ ret.cash_generation = "Good"

\* C20: the grade is BUY when margin > 20 and debt_ratio < 1.5, otherwise
\* HOLD (good) when margin > 15 and debt_ratio < 2, otherwise HOLD (fair)
\* when margin > 10, otherwise CAUTION: one grade for every pair.
C20_GradeByOrderedCases ==
    op = "_determine_investment_grade" =>
        LET m == args.metrics.profit_margin
            dr == args.metrics.debt_ratio
            buy == QLess(Q(20, 1), m) /\ QLess(dr, Q(3, 2))
            good == ~buy /\ QLess(Q(15, 1), m) /\ QLess(dr, Q(2, 1))
            fair == ~buy /\ ~good /\ QLess(Q(10, 1), m)
        IN  /\ ret \in {"BUY - Strong fundamentals", "HOLD - Good fundamentals",
                        "HOLD - Fair fundamentals", "CAUTION - Weak fundamentals"}
            /\ (ret = "BUY - Strong fundamentals") <=> buy
            /\ (ret = "HOLD - Good fundamentals") <=> good
            /\ (ret = "HOLD - Fair fundamentals") <=> fair
            /\ (ret = "CAUTION - Weak fundamentals") <=> (~buy /\ ~good /\ ~fair)

\* a margin above 20 with a debt_ratio of 1.5 misses BUY and is HOLD (good)
C20_Witness ==
    /\ op = "_determine_investment_grade"
    /\ QLess(Q(20, 1), args.metrics.profit_margin)
    /\ args.metrics.debt_ratio = Q(3, 2)
    /\ ret = "HOLD - Good fundamentals"

\* The rows a step has added to financial_reports, those before it kept.
Appended ==
    IF Len(financial_reports') >= Len(financial_reports)
       /\ SubSeq(financial_reports', 1, Len(financial_reports)) = financial_reports
    THEN Some(SubSeq(financial_reports', Len(financial_reports) + 1, Len(financial_reports')))
    ELSE None

\* The fetch of company c gave a usable figure and its write went through.
Fetched(env, c) ==
    /\ env[c].page.kind = "text"
    /\ DOMAIN env[c].page.found \cap {"revenue", "net_income", "production"} # {}
    /\ env[c].write = "ok"

\* C21: a refresh attempts every tracked company once, in order, and never
\* raises; a company whose page request raises, whose fetch has no usable
\* figure or whose write fails gets no new row, every row stored before is
\* left as it was, and every other company gets exactly one new row, in the
\* order of the tracked list.
C21_RefreshSkipsAndContinues ==
    [][op' = "update_all_reports" =>
        /\ ret'.kind = "done"
        /\ [i \in 1..Len(ret'.log) |-> ret'.log[i].company] = TRACKED_COMPANIES
        /\ Appended # None
        /\ [i \in 1..Len(Appended[1]) |-> companies[Appended[1][i].company_id]]
             = SelectSeq(TRACKED_COMPANIES, LAMBDA c : Fetched(args', c))]_vars

\* A refresh on a store that held a report: the request for Shell raised,
\* and BP, ExxonMobil and Chevron each got their row.
C21_Witness ==
    /\ op = "update_all_reports"
    /\ args["Shell"].page.kind = "raise"
    /\ \E i \in 1..Len(financial_reports) : "data_source" \notin DOMAIN financial_reports[i].raw_data
    /\ \A c \in {"BP", "ExxonMobil", "Chevron"} :
          \E i \in 1..Len(financial_reports) :
              /\ companies[financial_reports[i].company_id] = c
              /\ "data_source" \in DOMAIN financial_reports[i].raw_data


\* The monetary and production columns, and the key under which the fetch
\* returns each.
FigureColumns ==
    {"revenue", "net_income", "operating_income", "free_cash_flow", "total_debt",
     "cash_and_equivalents", "production_volume"}

FetchKey(column) == IF column = "production_volume" THEN "production" ELSE column

\* C22: in every row a refresh stores with data_source "official_scraping",
\* each monetary or production column holds the value the fetch returned for
\* it, and is absent (NULL) when the fetch returned none.
C22_NoFabricatedFigures ==
    [][(op' = "update_all_reports" /\ Appended # None) =>
        \A i \in 1..Len(Appended[1]) :
            LET row == Appended[1][i]
                found == args'[companies[row.company_id]].page.found
            IN  Get(row.raw_data, "data_source") = Some("official_scraping") =>
                    \A column \in FigureColumns : row[column] = Get(found, FetchKey(column))]_vars


\* C23: the registered companies are at all times exactly Shell, BP,
\* ExxonMobil and Chevron, each once, and opening the store again leaves the
\* companies and the stored reports as they were.
C23_CompaniesFixed ==
    [][/\ Len(companies') = 4
       /\ Range(companies') = {"Shell", "BP", "ExxonMobil", "Chevron"}
       /\ op' = "_init_database" =>
            (companies' = companies /\ financial_reports' = financial_reports)]_vars

\* The store is opened again while it holds reports, after a refresh.
C23_Witness ==
    /\ op = "_init_database"
    /\ Len(companies) = 4
    /\ \E i \in 1..Len(financial_reports) : "data_source" \in DOMAIN financial_reports[i].raw_data
    /\ \E i \in 1..Len(financial_reports) : "data_source" \notin DOMAIN financial_reports[i].raw_data


\* C24: the command 'companies', in any letter case and with surrounding
\* whitespace, answers with the four registered companies in alphabetical
\* order, with or without a backend, makes no backend call and leaves both
\* tables as they were.
C24_CompaniesCommand ==
    [][(op' = "process_query" /\ Commands[args'.user_input] = "companies") =>
        /\ ret' = Text(CHART \o <<" Available companies: ">>
                       \o <<"BP", "Chevron", "ExxonMobil", "Shell">>)
        /\ calls' = 0
        /\ companies' = companies
        /\ financial_reports' = financial_reports]_vars

\* ' Companies ' is entered while a backend is configured and reports are
\* stored.
C24_Witness ==
    /\ op = "process_query"
    /\ args.user_input = <<" ", "C", "o", "m", "p", "a", "n", "i", "e", "s", " ">>
    /\ client
    /\ Len(financial_reports) > 0
    /\ ret.kind = "text"


\* C25: each of the three reports of the engine (one company's performance,
\* the comparison, the investment recommendation) returns a text and does
\* not raise, whatever is stored: reports with absent figures, or none.
C25_EngineReportsNeverRaise ==
    op \in {"analyze_company_performance", "compare_companies", "analyze_investment_opportunity"}
        => ret.kind # "raise"


\* C26: context assembly always returns a bundle; the keys of its
\* latest-by-company map are exactly the relevant companies that have a
\* stored report, each mapped to a latest report of that company (none of
\* its reports has a later report_date, nor the same report_date and a later
\* created_at); with an empty store the latest and the historical map are
\* empty.
C26_ContextLatestOfRelevant ==
    op = "get_context_for_query" =>
        LET cd == ret.comparison_data IN
        /\ DOMAIN cd = { c \in Range(ret.relevant_companies) : ReportsOf(c) # {} }
        /\ \A c \in DOMAIN cd :
              /\ cd[c] \in ReportsOf(c)
              /\ \A q \in ReportsOf(c) :
                    /\ ~DateGreater(q.report_date, cd[c].report_date)
                    /\ q.report_date = cd[c].report_date
                         => ~LexGreater(q.created_at, cd[c].created_at)
        /\ financial_reports = << >> => (DOMAIN cd = {} /\ DOMAIN ret.historical_data = {})

\* Of the relevant companies one has no report and is left out, and one has
\* several reports.
C26_Witness ==
    /\ op = "get_context_for_query"
    /\ \E c \in Range(ret.relevant_companies) : ReportsOf(c) = {}
    /\ \E c \in DOMAIN ret.comparison_data : Cardinality(ReportsOf(c)) >= 2


\* The period of a row or of a report handed to put.
PeriodOf(r) == <<GetD(r, "report_type", "quarterly"), Get(r, "quarter"), Get(r, "year")>>

\* The periods the rows of table hold for the company of id company_id.
PeriodsIn(table, company_id) ==
    { PeriodOf(table[i]) : i \in { j \in 1..Len(table) : table[j].company_id = company_id } }

\* C27: a put of company C for period P that succeeds leaves every row of
\* another company and every row of C for another period as it was and adds
\* none of these, and no step of any operation takes a period away from the
\* periods stored for a company.
C27_PutTouchesOnePeriod ==
    [][/\ (op' = "store_financial_report" /\ ret' = TRUE) =>
            LET Other(r) == \/ companies[r.company_id] # args'.company_name
                            \/ PeriodOf(r) # PeriodOf(args'.report_data)
            IN  { r \in Range(financial_reports') : Other(r) }
                  = { r \in Range(financial_reports) : Other(r) }
       /\ \A id \in 1..Len(companies) :
            PeriodsIn(financial_reports, id) \subseteq PeriodsIn(financial_reports', id)]_vars

\* A put for Shell succeeded while Shell held a report of another period.
C27_Witness ==
    /\ op = "store_financial_report"
    /\ ret = TRUE
    /\ args.company_name = "Shell"
    /\ \E r \in ReportsOf("Shell") : PeriodOf(r) # PeriodOf(args.report_data)


ReadOperations ==
    {"get_latest_financial_data", "get_historical_trends", "has_recent_data",
     "get_all_companies", "get_context_for_query", "process_query"}

\* C28: latest, history, has_recent, the company list, context assembly and
\* the answer to a question (by the backend or by the fallback, which opens
\* the store anew) leave the companies and the reports as they were.
C28_ReadsLeaveStoreUnchanged ==
    [][op' \in ReadOperations =>
        (companies' = companies /\ financial_reports' = financial_reports)]_vars

\* The fallback answered a comparison question, opening the store anew,
\* while reports were stored.
C28_Witness ==
    /\ Responded
    /\ ~client
    /\ Branch[Stripped[args.user_input]] = "comparison"
    /\ ret.kind = "text"
    /\ Len(financial_reports) > 0


\* C29: whenever latest(C) has a value for metric m, history(C, m, limit) with
\* limit >= 1 starts with an entry that carries the quarter, the year and
\* the m value of latest(C), also when several reports of C share the
\* greatest report_date.
C29_HistoryStartsWithLatest ==
    (op = "get_historical_trends" /\ args.periods >= 1) =>
        \A l \in get_latest_financial_data(args.company_name) :
            (l # None /\ l[1][args.metric] # None) =>
                /\ Len(ret) >= 1
                /\ ret[1].value = l[1][args.metric]
                /\ ret[1].quarter = l[1].quarter
                /\ ret[1].year = l[1].year


\* C30: for every question the classifier labels trend_analysis, the bundle
\* the assembler builds holds the history of revenue and of net_income for
\* each of the first two relevant companies that has a stored value of it.
C30_TrendQuestionsGetHistory ==
    (op = "get_context_for_query" /\ _classify_query(args.query) = "trend_analysis") =>
        LET rc == ret.relevant_companies
            h == ret.historical_data
        IN  \A i \in { j \in 1..Len(rc) : j <= 2 } :
            \A m \in {"revenue", "net_income"} :
                (\E r \in ReportsOf(rc[i]) : r[m] # None) =>
                    (rc[i] \in DOMAIN h /\ m \in DOMAIN h[rc[i]])

====
